---- MODULE Spec2Model ----
(***************************************************************************)
(* The screen compositor of textual (src/textual/_compositor.py):          *)
(* arrangement of a widget tree into a composition map, the caches derived *)
(* from it, the dirty-region set and the full and partial screen updates.  *)
(***************************************************************************)
EXTENDS Integers, Sequences, FiniteSets, TLC

(***************************************************************************)
(* Bounds of the model.                                                    *)
(***************************************************************************)
\* largest vertical scroll offset the root container takes
MaxScroll == 1
\* number of operations (compositor calls and toolkit changes) in a run
MaxOps == 4

(***************************************************************************)
(* Option values: None is the empty sequence, Some(v) the one-element one. *)
(***************************************************************************)
None == <<>>
Some(v) == <<v>>
IsNone(o) == Len(o) = 0
Get(o) == o[1]

Min(a, b) == IF a < b THEN a ELSE b
Max(a, b) == IF a > b THEN a ELSE b

(***************************************************************************)
(* Geometry primitives (textual/geometry.py).                              *)
(***************************************************************************)
Offset(x, y) == [x |-> x, y |-> y]
Size(w, h) == [width |-> w, height |-> h]
Region(x, y, w, h) == [x |-> x, y |-> y, width |-> w, height |-> h]

NULL_OFFSET == Offset(0, 0)

\* Region.__bool__: a region is false when it has no area
NonEmpty(r) == r.width * r.height > 0
region_size(r) == Size(r.width, r.height)
region_offset(r) == Offset(r.x, r.y)
\* Size.region
size_region(s) == Region(0, 0, s.width, s.height)
reset_offset(r) == Region(0, 0, r.width, r.height)
translate(r, o) == Region(r.x + o.x, r.y + o.y, r.width, r.height)
offset_sub(a, b) == Offset(a.x - b.x, a.y - b.y)

Clamp(v, lo, hi) == IF v > hi THEN hi ELSE IF v < lo THEN lo ELSE v

\* Region.intersection: the corners of a clamped into b
intersection(a, b) ==
    LET rx1 == Clamp(a.x, b.x, b.x + b.width)
        ry1 == Clamp(a.y, b.y, b.y + b.height)
        rx2 == Clamp(a.x + a.width, b.x, b.x + b.width)
        ry2 == Clamp(a.y + a.height, b.y, b.y + b.height)
    IN Region(rx1, ry1, rx2 - rx1, ry2 - ry1)

\* Region.overlaps
overlaps(a, b) ==
    LET x == a.x
        y == a.y
        x2 == a.x + a.width
        y2 == a.y + a.height
        ox == b.x
        oy == b.y
        ox2 == b.x + b.width
        oy2 == b.y + b.height
    IN /\ \/ (x2 > ox /\ ox >= x)
          \/ (x2 > ox2 /\ ox2 > x)
          \/ (ox < x /\ ox2 >= x2)
       /\ \/ (y2 > oy /\ oy >= y)
          \/ (y2 > oy2 /\ oy2 > y)
          \/ (oy < y /\ oy2 >= y2)

\* Region.contains(x, y)
contains(r, x, y) ==
    /\ r.x + r.width > x /\ x >= r.x
    /\ r.y + r.height > y /\ y >= r.y

\* Region.contains_region: a contains b
contains_region(a, b) ==
    /\ a.x + a.width >= b.x /\ b.x >= a.x
    /\ a.y + a.height >= b.y /\ b.y >= a.y
    /\ a.x + a.width >= b.x + b.width /\ b.x + b.width >= a.x
    /\ a.y + a.height >= b.y + b.height /\ b.y + b.height >= a.y

\* Region.union: the bounding box of both
union(a, b) ==
    LET x1 == Min(a.x, b.x)
        y1 == Min(a.y, b.y)
        x2 == Max(a.x + a.width, b.x + b.width)
        y2 == Max(a.y + a.height, b.y + b.height)
    IN Region(x1, y1, x2 - x1, y2 - y1)

\* Region.grow by a spacing that is the same on all four sides
grow(r, m) ==
    Region(r.x - m, r.y - m, Max(0, r.width + 2 * m), Max(0, r.height + 2 * m))

\* Region.shrink by a spacing that is the same on all four sides
shrink(r, m) ==
    Region(r.x + m, r.y + m, Max(0, r.width - 2 * m), Max(0, r.height - 2 * m))

\* the cells of a region, as a set of <<column, row>>
Cells(r) ==
    {<<cx, cy>> : cx \in r.x .. (r.x + r.width - 1),
                  cy \in r.y .. (r.y + r.height - 1)}

RECURSIVE from_union_seq(_, _)
from_union_seq(rs, acc) ==
    IF rs = {} THEN acc
    ELSE LET r == CHOOSE q \in rs : TRUE
         IN from_union_seq(rs \ {r}, union(acc, r))

\* Region.from_union: the bounding box of a non-empty set of regions
from_union(rs) ==
    LET r == CHOOSE q \in rs : TRUE IN from_union_seq(rs \ {r}, r)

(***************************************************************************)
(* The widget tree the compositor reads: a scrollable root container with  *)
(* two leaf children and one piece of scrollbar chrome.                    *)
(***************************************************************************)
Leaves == {"A", "B"}
Styled == {"root", "A", "B"}
Widgets == {"root", "A", "B", "bar"}

\* the screen sizes a reflow is called with
Sizes == {Size(4, 2), Size(3, 1)}

Placement(r, w, z, fixed, layer) ==
    [region |-> r, margin |-> 0, widget |-> w, z |-> z, fixed |-> fixed,
     layer |-> layer]

\* the arrangements the root's layout produces
Layouts ==
    [overlap |->
        [bars |-> TRUE,
         placements |-> << Placement(Region(0, 0, 2, 2), "A", 0, FALSE, "default"),
                           Placement(Region(1, 0, 2, 2), "B", 0, FALSE, "default") >>],
     stack |->
        [bars |-> TRUE,
         placements |-> << Placement(Region(0, 0, 3, 1), "A", 0, FALSE, "default"),
                           Placement(Region(0, 2, 2, 1), "B", 0, FALSE, "top") >>],
     tiles |->
        [bars |-> FALSE,
         placements |-> << Placement(Region(0, 0, 2, 2), "A", 1, TRUE, "default"),
                           Placement(Region(1, 0, 3, 2), "B", 0, FALSE, "default") >>]]

LayoutNames == DOMAIN Layouts

\* Widget.layers of the root: the declared layer ordering
root_layers == << "default", "top" >>

is_scrollable(w) == w = "root"
is_container(w) == w = "root"

(***************************************************************************)
(* What the compositor asks of a widget.  t is the widget tree as it is at *)
(* the time of the call: [scroll_y, visibility, layout, opacity].          *)
(***************************************************************************)
\* widget.styles.get_rule("visibility"): "unset" stands for None
get_rule_visibility(t, w) == IF w \in Styled THEN t.visibility[w] ELSE "unset"

\* widget.styles.gutter, the same on all four sides
gutter(w) == 0

\* widget.scroll_offset
scroll_offset(t, w) == IF w = "root" THEN Offset(0, t.scroll_y) ELSE NULL_OFFSET

\* any(widget.scrollbars_enabled)
scrollbars_enabled(t, w) == w = "root" /\ Layouts[t.layout].bars

\* Widget._get_scrollable_region: the container region minus the scrollbar column
_get_scrollable_region(t, w, r) ==
    IF scrollbars_enabled(t, w)
    THEN Region(r.x, r.y, Max(0, r.width - 1), r.height)
    ELSE r

\* Widget._arrange_scrollbars: the chrome widgets and their regions
_arrange_scrollbars(t, w, r) ==
    LET bar_region == Region(r.x + Max(0, r.width - 1), r.y,
                             r.width - Max(0, r.width - 1), r.height)
    IN IF scrollbars_enabled(t, w) /\ NonEmpty(bar_region)
       THEN << << "bar", bar_region >> >>
       ELSE << >>

RECURSIVE total_of(_, _, _)
total_of(ps, i, acc) ==
    IF i > Len(ps) THEN acc
    ELSE total_of(ps, i + 1, union(acc, grow(ps[i].region, ps[i].margin)))

\* Widget._arrange(size): the placements of the children, all arranged
\* widgets, the region the placements cover and the scroll spacing
_arrange(t, w, sz) ==
    LET ps == Layouts[t.layout].placements
    IN [placements |-> ps,
        widgets |-> {ps[i].widget : i \in 1 .. Len(ps)},
        total_region |-> total_of(ps, 2, grow(ps[1].region, ps[1].margin)),
        scroll_spacing |-> 0]

RECURSIVE SelectSeq2(_, _, _)
SelectSeq2(s, i, viewport) ==
    IF i > Len(s) THEN << >>
    ELSE (IF overlaps(viewport, s[i].region) THEN << s[i] >> ELSE << >>)
         \o SelectSeq2(s, i + 1, viewport)

\* DockArrangeResult.get_visible_placements: the placements that intersect
\* the viewport
get_visible_placements(arrange_result, viewport) ==
    SelectSeq2(arrange_result.placements, 1, viewport)

\* index of a layer name in the widget's declared layers, default 0
\* (layers_to_index.get(sub_widget.layer, 0))
get_layer_index(layers, name) ==
    IF \E i \in 1 .. Len(layers) : layers[i] = name
    THEN (CHOOSE i \in 1 .. Len(layers) : layers[i] = name) - 1
    ELSE 0

(***************************************************************************)
(* The composition map: a dict, kept as the sequence of its items in       *)
(* insertion order; an item is << widget, MapGeometry >>.                  *)
(***************************************************************************)
MapGeometry(region, order, clip, virtual_size, container_size, virtual_region) ==
    [region |-> region, order |-> order, clip |-> clip,
     virtual_size |-> virtual_size, container_size |-> container_size,
     virtual_region |-> virtual_region]

\* MapGeometry.visible_region
visible_region(g) == intersection(g.clip, g.region)

\* map.keys()
Keys(m) == {m[i][1] : i \in 1 .. Len(m)}
\* map.items(), as a set
Items(m) == {m[i] : i \in 1 .. Len(m)}
\* map[widget], for a key of the map
Lookup(m, w) == (CHOOSE i \in 1 .. Len(m) : m[i][1] = w)
Geometry(m, w) == m[Lookup(m, w)][2]

\* map[widget] = geometry: a new key is appended, an old one keeps its place
MapSet(m, w, g) ==
    IF w \in Keys(m)
    THEN [m EXCEPT ![Lookup(m, w)] = << w, g >>]
    ELSE Append(m, << w, g >>)

\* comparison of two paint-order triples (Python tuple comparison)
TripleLess(a, b) ==
    \/ a[1] < b[1]
    \/ (a[1] = b[1] /\ a[2] < b[2])
    \/ (a[1] = b[1] /\ a[2] = b[2] /\ a[3] < b[3])

\* comparison of two order tuples: lexicographic, a proper prefix is smaller
OrderLess(a, b) ==
    \/ \E i \in 1 .. Min(Len(a), Len(b)) :
          /\ \A j \in 1 .. (i - 1) : a[j] = b[j]
          /\ TripleLess(a[i], b[i])
    \/ (Len(a) < Len(b) /\ \A j \in 1 .. Len(a) : a[j] = b[j])

\* the placements taken in declaration order instead
in_declaration_order(s) == s
\* reversed(placements)
Reverse(s) == [i \in 1 .. Len(s) |-> s[Len(s) + 1 - i]]

(***************************************************************************)
(* Compositor._arrange_root and its recursive add_widget.  acc is the map  *)
(* and the widget set under construction; a holds add_widget's arguments.  *)
(***************************************************************************)
RECURSIVE add_widget(_, _, _, _)
RECURSIVE add_placements(_, _, _, _, _)

\* the state of the loop once add_widget has returned acc for a placement
after_placement(acc, total_region, layer_order) ==
    [map |-> acc.map, widgets |-> acc.widgets,
     total_region |-> total_region, layer_order |-> layer_order]

\* the same loop without the decrement of layer_order
RECURSIVE add_placements_one_order(_, _, _, _, _)
add_placements_one_order(st, t, visible_only, ps, c) ==
    IF ps = << >> THEN st
    ELSE
      LET p == Head(ps)
      IN add_placements_one_order(
             after_placement(
                 add_widget([map |-> st.map, widgets |-> st.widgets], t,
                            visible_only,
                            [widget |-> p.widget,
                             virtual_region |-> p.region,
                             region |-> IF p.fixed
                                        THEN translate(p.region, c.placement_offset)
                                        ELSE translate(p.region,
                                                       c.placement_scroll_offset),
                             order |-> Append(c.order,
                                              << get_layer_index(c.layers, p.layer),
                                                 p.z, st.layer_order >>),
                             layer_order |-> st.layer_order,
                             clip |-> c.sub_clip,
                             visible |-> c.visible]),
                 IF p.fixed THEN st.total_region
                 ELSE union(st.total_region,
                            grow(p.region,
                                 IF get_layer_index(c.layers, p.layer) # 0
                                 THEN p.margin
                                 ELSE p.margin + c.scroll_spacing)),
                 st.layer_order),
             t, visible_only, Tail(ps), c)

\* the loop over reversed(placements): ps holds the placements still to
\* come, st carries the map, the widget set, total_region and layer_order
add_placements(st, t, visible_only, ps, c) ==
    IF ps = << >> THEN st
    ELSE
      LET p == Head(ps)
          layer_index == get_layer_index(c.layers, p.layer)
          total_region ==
              IF p.fixed THEN st.total_region
              ELSE union(st.total_region,
                         grow(p.region,
                              IF layer_index # 0 THEN p.margin
                              ELSE p.margin + c.scroll_spacing))
          widget_region ==
              IF p.fixed THEN translate(p.region, c.placement_offset)
              ELSE translate(p.region, c.placement_scroll_offset)
          widget_order == Append(c.order, << layer_index, p.z, st.layer_order >>)
      IN add_placements(
             after_placement(
                 add_widget([map |-> st.map, widgets |-> st.widgets], t,
                            visible_only,
                            [widget |-> p.widget,
                             virtual_region |-> p.region,
                             region |-> widget_region,
                             order |-> widget_order,
                             layer_order |-> st.layer_order,
                             clip |-> c.sub_clip,
                             visible |-> c.visible]),
                 total_region, st.layer_order - 1),
             t, visible_only, Tail(ps), c)

\* the loop over widget._arrange_scrollbars(container_region)
RECURSIVE add_chrome(_, _, _, _, _)
add_chrome(map, bars, order, clip, container_size) ==
    IF bars = << >> THEN map
    ELSE add_chrome(MapSet(map, Head(bars)[1],
                           MapGeometry(Head(bars)[2], order, clip, container_size,
                                       container_size, Head(bars)[2])),
                    Tail(bars), order, clip, container_size)

\* the end of add_widget for a scrollable widget: st holds the map, the
\* widgets and total_region once the children are added
add_scrollable(t, a, visible, layout_offset, container_region, st) ==
    IF visible
    THEN [map |-> MapSet(IF scrollbars_enabled(t, a.widget)
                         THEN add_chrome(st.map,
                                         _arrange_scrollbars(t, a.widget,
                                                             container_region),
                                         a.order, a.clip,
                                         region_size(container_region))
                         ELSE st.map,
                         a.widget,
                         MapGeometry(translate(a.region, layout_offset),
                                     a.order, a.clip,
                                     region_size(st.total_region),
                                     region_size(container_region),
                                     a.virtual_region)),
          widgets |-> st.widgets]
    ELSE [map |-> st.map, widgets |-> st.widgets]

add_widget(acc, t, visible_only, a) ==
    LET widget == a.widget
        visibility == get_rule_visibility(t, widget)
        visible == IF visibility # "unset" THEN visibility = "visible"
                   ELSE a.visible
        widgets1 == IF visible THEN acc.widgets \cup {widget} ELSE acc.widgets
        layout_offset == NULL_OFFSET
        container_region ==
            translate(shrink(a.region, gutter(widget)), layout_offset)
        container_size == region_size(container_region)
    IN
    IF is_scrollable(widget) THEN
      LET child_region == _get_scrollable_region(t, widget, container_region)
          sub_clip == intersection(a.clip, child_region)
          total0 == reset_offset(child_region)
          arrange_result == _arrange(t, widget, region_size(child_region))
          placements ==
              IF visible_only
              THEN get_visible_placements(
                       arrange_result,
                       translate(size_region(container_size),
                                 scroll_offset(t, widget)))
              ELSE arrange_result.placements
          placement_offset == region_offset(container_region)
      IN add_scrollable(
             t, a, visible, layout_offset, container_region,
             IF is_container(widget)
             THEN add_placements(
                      [map |-> acc.map,
                       widgets |-> widgets1 \cup arrange_result.widgets,
                       total_region |-> union(total0, arrange_result.total_region),
                       layer_order |-> a.layer_order],
                      t, visible_only, Reverse(placements),
                      [layers |-> root_layers,
                       scroll_spacing |-> arrange_result.scroll_spacing,
                       placement_offset |-> placement_offset,
                       placement_scroll_offset |->
                           offset_sub(placement_offset, scroll_offset(t, widget)),
                       order |-> a.order,
                       sub_clip |-> sub_clip,
                       visible |-> visible])
             ELSE [map |-> acc.map, widgets |-> widgets1,
                   total_region |-> total0, layer_order |-> a.layer_order])
    ELSE IF visible THEN
      [map |-> MapSet(acc.map, widget,
                      MapGeometry(translate(a.region, layout_offset), a.order,
                                  a.clip, region_size(a.region), container_size,
                                  a.virtual_region)),
       widgets |-> widgets1]
    ELSE [map |-> acc.map, widgets |-> widgets1]

\* Compositor._arrange_root(root, size, visible_only): the map and the widgets
_arrange_root(t, root_widget, sz, visible_only) ==
    add_widget([map |-> << >>, widgets |-> {}], t, visible_only,
               [widget |-> root_widget,
                virtual_region |-> size_region(sz),
                region |-> size_region(sz),
                order |-> << << 0, 0, 0 >> >>,
                layer_order |-> 0,
                clip |-> size_region(sz),
                visible |-> TRUE])

(***************************************************************************)
(* The Compositor object.  A pure operation takes the object c (a record   *)
(* of its fields) and the widget tree t, and returns the object after the  *)
(* call together with what the call returns.                               *)
(***************************************************************************)
\* Compositor.__init__
Compositor_init ==
    [_full_map |-> << >>,
     _full_map_invalidated |-> TRUE,
     _visible_map |-> None,
     _layers |-> None,
     widgets |-> {},
     _visible_widgets |-> None,
     root |-> None,
     size |-> Size(0, 0),
     _cuts |-> None,
     _dirty_regions |-> {},
     _layers_visible |-> None]

\* the same set made of the regions of the changed items, not clipped
changed_regions_unclipped(changes) ==
    {item[2].region : item \in {i \in changes : NonEmpty(i[2].region)}}

\* the set a reflow adds to the dirty regions: the non-empty visible
\* regions of the changed items
changed_regions(changes) ==
    {visible_region(item[2]) : item \in {i \in changes : NonEmpty(visible_region(i[2]))}}

\* the same comprehension comparing the whole region, not region[2:]
moved_among(old_map, changes, common_widgets) ==
    {item[1] : item \in
        {i \in changes :
            /\ i[1] \in common_widgets
            /\ Geometry(old_map, i[1]).region # i[2].region}}

\* resized_widgets: the widgets of the changes that are in both maps and
\* whose old_map[widget].region[2:] differs from region[2:]
resized_among(old_map, changes, common_widgets) ==
    {item[1] : item \in
        {i \in changes :
            /\ i[1] \in common_widgets
            /\ region_size(Geometry(old_map, i[1]).region)
                 # region_size(i[2].region)}}

\* Compositor.reflow from the point where _arrange_root has returned
\* arranged = (map, widgets).  self.widgets is assigned before the hidden
\* widgets are computed from it.
reflow_arranged(c, parent, sz, arranged) ==
    LET old_map == c._full_map
        old_widgets == Keys(old_map)
        map == arranged.map
        new_widgets == Keys(map)
        self_widgets == arranged.widgets
        changes == (Items(map) \ Items(old_map)) \cup (Items(old_map) \ Items(map))
        common_widgets == old_widgets \cap new_widgets
        screen_region == size_region(sz)
        dirty == IF screen_region \notin c._dirty_regions
                 THEN c._dirty_regions \cup changed_regions(changes)
                 ELSE c._dirty_regions
        resized_widgets == resized_among(old_map, changes, common_widgets)
        shown_widgets == new_widgets \ old_widgets
        hidden_widgets == self_widgets \ arranged.widgets
    IN [self |-> [c EXCEPT !._cuts = None,
                           !._layers = None,
                           !._layers_visible = None,
                           !._visible_widgets = None,
                           !._visible_map = None,
                           !.root = Some(parent),
                           !.size = sz,
                           !._full_map = map,
                           !.widgets = self_widgets,
                           !._dirty_regions = dirty],
        hidden |-> hidden_widgets,
        shown |-> shown_widgets,
        resized |-> resized_widgets]

\* Compositor.reflow(parent, size): _arrange_root is called with its
\* default visible_only
reflow(c, t, parent, sz) ==
    reflow_arranged(c, parent, sz, _arrange_root(t, parent, sz, TRUE))

\* the full map taken as the old map whether a visible map is held or not
previous_full_map(c) == c._full_map

\* old_map of reflow_visible: the visible map if there is one, else the
\* full map
previous_map(c) ==
    IF ~IsNone(c._visible_map) THEN Get(c._visible_map) ELSE c._full_map

\* Compositor.reflow_visible from the point where _arrange_root has returned
reflow_visible_arranged(c, parent, sz, arranged) ==
    LET old_map == previous_map(c)
        map == arranged.map
        exposed_widgets == Keys(map) \ Keys(old_map)
        changes == (Items(map) \ Items(old_map)) \cup (Items(old_map) \ Items(map))
        screen_region == size_region(sz)
        dirty == IF screen_region \notin c._dirty_regions
                 THEN c._dirty_regions \cup changed_regions(changes)
                 ELSE c._dirty_regions
    IN [self |-> [c EXCEPT !._cuts = None,
                           !._layers = None,
                           !._layers_visible = None,
                           !._visible_widgets = None,
                           !._full_map_invalidated = TRUE,
                           !.root = Some(parent),
                           !.size = sz,
                           !._visible_map = Some(map),
                           !.widgets = arranged.widgets,
                           !._dirty_regions = dirty],
        exposed |-> exposed_widgets]

\* Compositor.reflow_visible(parent, size)
reflow_visible(c, t, parent, sz) ==
    reflow_visible_arranged(c, parent, sz, _arrange_root(t, parent, sz, TRUE))

\* Compositor.full_map, the branch that rebuilds: map is what _arrange_root
\* returned
full_map_rebuilt(c, map) ==
    [self |-> [c EXCEPT !._full_map_invalidated = FALSE,
                        !._full_map = map,
                        !._visible_widgets = None,
                        !._visible_map = None],
     value |-> map, arranged |-> TRUE]

\* Compositor.full_map (property)
full_map(c, t) ==
    IF IsNone(c.root) THEN [self |-> c, value |-> << >>, arranged |-> FALSE]
    ELSE IF c._full_map_invalidated
    THEN full_map_rebuilt(c, _arrange_root(t, Get(c.root), c.size, FALSE).map)
    ELSE [self |-> c, value |-> c._full_map, arranged |-> FALSE]

\* list.sort(key=order, reverse=True): stable, so items of equal order keep
\* the order they had; e is put behind every item that is not smaller
RECURSIVE InsertDesc(_, _)
InsertDesc(sorted, e) ==
    IF sorted = << >> THEN << e >>
    ELSE IF OrderLess(Head(sorted).order, e.order)
         THEN << e >> \o sorted
         ELSE << Head(sorted) >> \o InsertDesc(Tail(sorted), e)

RECURSIVE SortDesc(_, _, _)
SortDesc(items, i, acc) ==
    IF i > Len(items) THEN acc
    ELSE SortDesc(items, i + 1, InsertDesc(acc, items[i]))

\* the map in force: the visible map when there is one, else the full map
map_in_force(c) ==
    IF ~IsNone(c._visible_map) THEN Get(c._visible_map) ELSE c._full_map

\* what a cached property returns once it has stored the value it computed
visible_widgets_cached(c, value) ==
    [self |-> [c EXCEPT !._visible_widgets = Some(value)], value |-> value]

\* Compositor.visible_widgets (property): the ordered dict as the sequence
\* of [widget, region, clip, order], front to back
visible_widgets(c) ==
    IF IsNone(c._visible_widgets)
    THEN LET map == map_in_force(c)
             screen == size_region(c.size)
             all == [i \in 1 .. Len(map) |->
                        [order |-> map[i][2].order, widget |-> map[i][1],
                         region |-> map[i][2].region, clip |-> map[i][2].clip]]
             kept == SelectSeq(all, LAMBDA e : overlaps(screen, e.region)
                                               /\ overlaps(e.clip, e.region))
         IN visible_widgets_cached(c, SortDesc(kept, 1, << >>))
    ELSE [self |-> c, value |-> Get(c._visible_widgets)]

layers_cached(c, value) ==
    [self |-> [c EXCEPT !._layers = Some(value)], value |-> value]

\* Compositor.layers (property)
layers(c) ==
    IF IsNone(c._layers)
    THEN LET map == map_in_force(c)
             all == [i \in 1 .. Len(map) |->
                        [order |-> map[i][2].order, widget |-> map[i][1],
                         geometry |-> map[i][2]]]
         IN layers_cached(c, SortDesc(all, 1, << >>))
    ELSE [self |-> c, value |-> Get(c._layers)]

layers_visible_cached(c, value) ==
    [self |-> [c EXCEPT !._layers_visible = Some(value)], value |-> value]

\* Compositor.layers_visible once visible_widgets has returned vw
layers_visible_of(c, vw) ==
    LET located == [i \in 1 .. Len(vw.value) |->
                       [widget |-> vw.value[i].widget,
                        cropped_region |->
                            intersection(vw.value[i].region, vw.value[i].clip),
                        region |-> vw.value[i].region]]
    IN layers_visible_cached(
           vw.self,
           [row \in 1 .. c.size.height |->
               SelectSeq(located,
                   LAMBDA e : /\ e.cropped_region.height # 0
                              /\ e.cropped_region.y <= row - 1
                              /\ row - 1 < e.cropped_region.y
                                             + e.cropped_region.height)])

\* Compositor.layers_visible (property): one list per row of
\* [widget, cropped_region, region]
layers_visible(c) ==
    IF IsNone(c._layers_visible)
    THEN layers_visible_of(c, visible_widgets(c))
    ELSE [self |-> c, value |-> Get(c._layers_visible)]

\* sorted(set(line_cuts))
RECURSIVE SortedSet(_)
SortedSet(S) ==
    IF S = {} THEN << >>
    ELSE LET m == CHOOSE v \in S : \A u \in S : v <= u
         IN << m >> \o SortedSet(S \ {m})

cuts_cached(c, value) ==
    [self |-> [c EXCEPT !._cuts = Some(value)], value |-> value]

\* Compositor.cuts once visible_widgets has returned vw
cuts_of(c, vw) ==
    LET width == c.size.width
        screen_region == size_region(c.size)
        clipped == [i \in 1 .. Len(vw.value) |->
                       intersection(vw.value[i].region, vw.value[i].clip)]
        used == {i \in 1 .. Len(clipped) :
                    NonEmpty(clipped[i]) /\ contains_region(screen_region, clipped[i])}
        \* cuts[y : y + region_height]: a slice, cut off at the ends of the list
        inslice(r, row) == /\ Max(r.y, 0) <= row - 1
                           /\ row - 1 < Min(r.y + r.height, c.size.height)
    IN cuts_cached(
           vw.self,
           [row \in 1 .. c.size.height |->
               SortedSet({0, width}
                   \cup {clipped[i].x : i \in {j \in used : inslice(clipped[j], row)}}
                   \cup {clipped[i].x + clipped[i].width :
                            i \in {j \in used : inslice(clipped[j], row)}})])

\* Compositor.cuts (property): one sorted list of columns per row
cuts(c) ==
    IF ~IsNone(c._cuts) THEN [self |-> c, value |-> Get(c._cuts)]
    ELSE cuts_of(c, visible_widgets(c))

(***************************************************************************)
(* Rendering.  A strip is a sequence of segments; a segment a widget       *)
(* renders shows one cell of it, [w, x, y, len]: the widget, the cell in   *)
(* widget-local coordinates and the segment's cell length.                 *)
(***************************************************************************)
cell_len(segment) == segment.len

\* widget.render_lines(region): one strip per row of the region
render_lines(w, r) ==
    [j \in 1 .. r.height |->
        [i \in 1 .. r.width |-> [w |-> w, x |-> r.x + i - 1, y |-> r.y + j - 1,
                                 len |-> 1]]]

\* widget.styles.opacity
opacity_of(t, w) == t.opacity[w]

RECURSIVE renders_of(_, _)
renders_of(widget_regions, i) ==
    IF i > Len(widget_regions) THEN << >>
    ELSE
      LET e == widget_regions[i]
          clipped_region == intersection(e.region, e.clip)
          asked == IF contains_region(e.clip, e.region)
                   THEN Region(0, 0, e.region.width, e.region.height)
                   ELSE Region(clipped_region.x - e.region.x,
                               clipped_region.y - e.region.y,
                               clipped_region.width, clipped_region.height)
      IN (IF ~contains_region(e.clip, e.region) /\ ~NonEmpty(clipped_region)
          THEN << >>
          ELSE << [widget |-> e.widget, region |-> e.region, clip |-> e.clip,
                   asked |-> asked, strips |-> render_lines(e.widget, asked)] >>)
         \o renders_of(widget_regions, i + 1)

\* the same with the widgets of opacity 0 rendered as well
_get_renders_of_any_opacity(t, crop, vw) ==
    [self |-> vw.self,
     value |-> renders_of(
                   IF NonEmpty(crop)
                   THEN SelectSeq(vw.value, LAMBDA e : overlaps(crop, e.clip))
                   ELSE vw.value,
                   1)]

\* Compositor._get_renders once visible_widgets has returned vw
_get_renders_of(t, crop, vw) ==
    [self |-> vw.self,
     value |-> renders_of(
                   IF NonEmpty(crop)
                   THEN SelectSeq(vw.value, LAMBDA e : overlaps(crop, e.clip)
                                                       /\ opacity_of(t, e.widget) > 0)
                   ELSE SelectSeq(vw.value, LAMBDA e : opacity_of(t, e.widget) > 0),
                   1)]

\* Compositor._get_renders(crop): the renders of the visible widgets, front
\* to back
_get_renders(c, t, crop) == _get_renders_of(t, crop, visible_widgets(c))

\* Strip.divide(cuts): the strip cut at the given cell positions
RECURSIVE divide(_, _, _)
divide(strip, relative_cuts, from) ==
    IF relative_cuts = << >> THEN << >>
    ELSE << SubSeq(strip, from + 1, Min(Head(relative_cuts), Len(strip))) >>
         \o divide(strip, Tail(relative_cuts), Head(relative_cuts))

\* a line of chops is a dict from cut to strip-or-None, kept as the
\* sequence of its items [cut, strip] in cut order
HasCut(chops_line, cut) == \E k \in 1 .. Len(chops_line) : chops_line[k].cut = cut
CutIndex(chops_line, cut) == CHOOSE k \in 1 .. Len(chops_line) : chops_line[k].cut = cut

\* the same loop writing every slot, empty or not
RECURSIVE fill_cuts_overwriting(_, _, _, _)
fill_cuts_overwriting(line, final_cuts, cut_strips, k) ==
    IF line.error \/ k > Len(final_cuts) \/ k > Len(cut_strips) THEN line
    ELSE IF ~HasCut(line.items, final_cuts[k])
    THEN [line EXCEPT !.error = TRUE]
    ELSE fill_cuts_overwriting(
             [line EXCEPT !.items[CutIndex(line.items, final_cuts[k])].strip =
                              Some(cut_strips[k])],
             final_cuts, cut_strips, k + 1)

\* for cut, strip in zip(final_cuts, cut_strips): the first strip of a cut wins
RECURSIVE fill_cuts(_, _, _, _)
fill_cuts(line, final_cuts, cut_strips, k) ==
    IF line.error \/ k > Len(final_cuts) \/ k > Len(cut_strips) THEN line
    ELSE IF ~HasCut(line.items, final_cuts[k])
    THEN [line EXCEPT !.error = TRUE]
    ELSE LET at == CutIndex(line.items, final_cuts[k])
         IN fill_cuts(
                IF IsNone(line.items[at].strip)
                THEN [line EXCEPT !.items[at].strip = Some(cut_strips[k])]
                ELSE line,
                final_cuts, cut_strips, k + 1)

\* chops once the line of row y is filled
with_line(chops, y, line) ==
    [lines |-> [chops.lines EXCEPT ![y + 1] = line.items], error |-> line.error]

\* the body of the loop over the rows of one render
RECURSIVE chop_rows(_, _, _, _, _)
chop_rows(chops, cuts_value, render, rendered_lines, j) ==
    LET render_region == intersection(render.region, render.clip)
        y == render_region.y + j - 1
    IN IF chops.error \/ j > render_region.height \/ j > Len(render.strips)
       THEN chops
       ELSE IF y \notin rendered_lines
       THEN chop_rows(chops, cuts_value, render, rendered_lines, j + 1)
       ELSE IF y < 0 \/ y >= Len(chops.lines)
       THEN [chops EXCEPT !.error = TRUE]
       ELSE
         LET strip == render.strips[j]
             first_cut == render_region.x
             last_cut == render_region.x + render_region.width
             cuts_line == cuts_value[y + 1]
             final_cuts == SelectSeq(cuts_line,
                               LAMBDA cut : last_cut >= cut /\ cut >= first_cut)
             cut_strips ==
                 IF Len(final_cuts) <= 2 THEN << strip >>
                 ELSE divide(strip,
                             [k \in 1 .. (Len(final_cuts) - 1) |->
                                 final_cuts[k + 1] - render_region.x], 0)
         IN chop_rows(with_line(chops, y,
                                fill_cuts([items |-> chops.lines[y + 1],
                                           error |-> FALSE],
                                          final_cuts, cut_strips, 1)),
                      cuts_value, render, rendered_lines, j + 1)

RECURSIVE chop_renders(_, _, _, _, _)
chop_renders(chops, cuts_value, renders, rendered_lines, i) ==
    IF chops.error \/ i > Len(renders) THEN chops
    ELSE chop_renders(chop_rows(chops, cuts_value, renders[i], rendered_lines, 1),
                      cuts_value, renders, rendered_lines, i + 1)

\* chops = [[None] * (len(cut_set) - 1) ...]: one empty slot per cut but the
\* last, on every row
empty_chops(cuts_value) ==
    [row \in 1 .. Len(cuts_value) |->
        [k \in 1 .. (Len(cuts_value[row]) - 1) |->
            [cut |-> cuts_value[row][k], strip |-> None]]]

\* what _render_chops returns once the renders are chopped
_render_chops_result(renders, chops) ==
    [self |-> renders.self, value |-> chops.lines, error |-> chops.error,
     renders |-> renders.value]

\* _render_chops once _get_renders has returned renders
_render_chops_renders(cuts_value, rendered_lines, renders) ==
    _render_chops_result(
        renders,
        chop_renders([lines |-> empty_chops(cuts_value), error |-> FALSE],
                     cuts_value, renders.value, rendered_lines, 1))

\* _render_chops once self.cuts has returned cu
_render_chops_cuts(t, crop, rendered_lines, cu) ==
    _render_chops_renders(cu.value, rendered_lines, _get_renders(cu.self, t, crop))

\* Compositor._render_chops(crop, is_rendered_line): rendered_lines is the
\* set of rows is_rendered_line accepts.  error: the call raised (a cut that
\* is no key of its line, a row that is no line of chops)
_render_chops(c, t, crop, rendered_lines) ==
    _render_chops_cuts(t, crop, rendered_lines, cuts(c))

(***************************************************************************)
(* Compositor._regions_to_spans.  regions is a sequence (the iterable in   *)
(* iteration order); the result is the sequence of the yielded << y, x1,   *)
(* x2 >>.                                                                  *)
(***************************************************************************)
\* inline_ranges[y]: the spans appended for row y, in iteration order
inline_ranges(regions, y) ==
    LET on_row == SelectSeq(regions, LAMBDA r : r.y <= y /\ y < r.y + r.height)
    IN [i \in 1 .. Len(on_row) |-> << on_row[i].x, on_row[i].x + on_row[i].width >>]

PairLess(a, b) == a[1] < b[1] \/ (a[1] = b[1] /\ a[2] < b[2])

\* ranges.sort()
RECURSIVE InsertAsc(_, _)
InsertAsc(sorted, e) ==
    IF sorted = << >> THEN << e >>
    ELSE IF PairLess(e, Head(sorted)) THEN << e >> \o sorted
         ELSE << Head(sorted) >> \o InsertAsc(Tail(sorted), e)

RECURSIVE SortAsc(_, _, _)
SortAsc(ranges, i, acc) ==
    IF i > Len(ranges) THEN acc
    ELSE SortAsc(ranges, i + 1, InsertAsc(acc, ranges[i]))

\* the same loop merging only ranges that overlap, not those that touch
RECURSIVE merge_ranges_overlapping(_, _, _, _, _)
merge_ranges_overlapping(y, ranges, i, x1, x2) ==
    IF i > Len(ranges) THEN << << y, x1, x2 >> >>
    ELSE IF ranges[i][1] < x2
         THEN merge_ranges_overlapping(y, ranges, i + 1, x1,
                                       IF ranges[i][2] > x2 THEN ranges[i][2] ELSE x2)
         ELSE << << y, x1, x2 >> >>
              \o merge_ranges_overlapping(y, ranges, i + 1, ranges[i][1],
                                          ranges[i][2])

\* the merge loop over ranges[1:], with the span (x1, x2) being grown
RECURSIVE merge_ranges(_, _, _, _, _)
merge_ranges(y, ranges, i, x1, x2) ==
    IF i > Len(ranges) THEN << << y, x1, x2 >> >>
    ELSE LET next_x1 == ranges[i][1]
             next_x2 == ranges[i][2]
         IN IF next_x1 <= x2
            THEN merge_ranges(y, ranges, i + 1, x1,
                              IF next_x2 > x2 THEN next_x2 ELSE x2)
            ELSE << << y, x1, x2 >> >>
                 \o merge_ranges(y, ranges, i + 1, next_x1, next_x2)

row_spans(regions, y) ==
    LET ranges == inline_ranges(regions, y)
    IN IF Len(ranges) = 0 THEN << >>
       ELSE IF Len(ranges) = 1 THEN << << y, ranges[1][1], ranges[1][2] >> >>
       ELSE LET sorted == SortAsc(ranges, 1, << >>)
            IN merge_ranges(y, sorted, 2, sorted[1][1], sorted[1][2])

RECURSIVE spans_from(_, _, _)
spans_from(regions, y, last) ==
    IF y > last THEN << >>
    ELSE row_spans(regions, y) \o spans_from(regions, y + 1, last)

_regions_to_spans(regions) ==
    IF Len(regions) = 0 THEN << >>
    ELSE LET lo == CHOOSE v \in {regions[i].y : i \in 1 .. Len(regions)} :
                       \A i \in 1 .. Len(regions) : v <= regions[i].y
             hi == CHOOSE v \in {regions[i].y + regions[i].height : i \in 1 .. Len(regions)} :
                       \A i \in 1 .. Len(regions) : v >= regions[i].y + regions[i].height
         IN spans_from(regions, lo, hi - 1)

\* a set as a sequence, in some order (iteration over a Python set)
RECURSIVE SetToSeq(_)
SetToSeq(S) ==
    IF S = {} THEN << >>
    ELSE LET e == CHOOSE v \in S : TRUE IN << e >> \o SetToSeq(S \ {e})

(***************************************************************************)
(* The two renderables.  What a renderable yields is a sequence of items:  *)
(* a cursor move, a segment, or a new line.                                *)
(***************************************************************************)
move_to(x, y) == [kind |-> "move", x |-> x, y |-> y]
Seg(s) == [kind |-> "segment", segment |-> s]
new_line == [kind |-> "newline"]

SegItems(strip) == [i \in 1 .. Len(strip) |-> Seg(strip[i])]

\* Strip.join(strips): the strips one after the other, None skipped
RECURSIVE join(_)
join(chop_values) ==
    IF chop_values = << >> THEN << >>
    ELSE (IF IsNone(Head(chop_values)) THEN << >> ELSE Get(Head(chop_values)))
         \o join(Tail(chop_values))

\* LayoutUpdate.__rich_console__
RECURSIVE LayoutUpdate_console(_, _, _)
LayoutUpdate_console(strips, region, i) ==
    IF i > Len(strips) THEN << >>
    ELSE << move_to(region.x, region.y + i - 1) >>
         \o SegItems(strips[i])
         \o (IF i # Len(strips) THEN << new_line >> ELSE << >>)
         \o LayoutUpdate_console(strips, region, i + 1)

\* the first loop of the x < x1 branch: skip the segments that end at or
\* before x1; returns the items yielded, the rest of the iterator and x
RECURSIVE skip_to(_, _, _, _)
skip_to(segments, x, x1, y) ==
    IF segments = << >> THEN [items |-> << >>, rest |-> << >>, x |-> x]
    ELSE LET next_x == x + cell_len(Head(segments))
         IN IF next_x > x1
            THEN [items |-> << move_to(x, y), Seg(Head(segments)) >>,
                  rest |-> Tail(segments), x |-> x]
            ELSE skip_to(Tail(segments), next_x, x1, y)

\* the last loop: yield segments until x reaches x2
RECURSIVE take_until(_, _, _)
take_until(segments, x, x2) ==
    IF segments = << >> \/ x >= x2 THEN << >>
    ELSE << Seg(Head(segments)) >>
         \o take_until(Tail(segments), x + cell_len(Head(segments)), x2)

\* what one chop (x, strip) with end `end` yields for the span (y, x1, x2)
chop_console(x, end, strip, y, x1, x2) ==
    IF IsNone(strip) THEN << >>
    ELSE IF x > x2 \/ end <= x1 THEN << >>
    ELSE IF x2 > x /\ x >= x1 /\ end <= x2
    THEN << move_to(x, y) >> \o SegItems(Get(strip))
    ELSE LET first == IF x < x1 THEN skip_to(Get(strip), x, x1, y)
                      ELSE [items |-> << move_to(x, y) >>, rest |-> Get(strip),
                            x |-> x]
         IN first.items
            \o (IF end <= x2 THEN SegItems(first.rest)
                ELSE take_until(first.rest, first.x, x2))

\* for end, (x, strip) in zip(ends, line.items())
RECURSIVE line_console(_, _, _, _, _, _)
line_console(line, ends, k, y, x1, x2) ==
    IF k > Len(line) \/ k > Len(ends) THEN << >>
    ELSE chop_console(line[k].cut, ends[k], line[k].strip, y, x1, x2)
         \o line_console(line, ends, k + 1, y, x1, x2)

\* ChopsUpdate.__rich_console__: items are the items yielded; error: a span
\* names a row that is no line of chops (an IndexError)
RECURSIVE ChopsUpdate_console(_, _, _, _)
ChopsUpdate_console(chops, spans, chop_ends, i) ==
    IF i > Len(spans) THEN [items |-> << >>, error |-> FALSE]
    ELSE LET y == spans[i][1]
             last_y == spans[Len(spans)][1]
         IN IF y < 0 \/ y >= Len(chops) \/ y >= Len(chop_ends)
            THEN [items |-> << >>, error |-> TRUE]
            ELSE LET rest == ChopsUpdate_console(chops, spans, chop_ends, i + 1)
                 IN [items |-> line_console(chops[y + 1], chop_ends[y + 1], 1, y,
                                            spans[i][2], spans[i][3])
                               \o (IF y # last_y THEN << new_line >> ELSE << >>)
                               \o rest.items,
                     error |-> rest.error]

\* the terminal: the cells the items paint, as << column, row, segment >>;
\* a segment is written at the cursor, which it moves on by its length
RECURSIVE Paint(_, _, _, _)
Paint(items, i, cx, cy) ==
    IF i > Len(items) THEN {}
    ELSE IF items[i].kind = "move" THEN Paint(items, i + 1, items[i].x, items[i].y)
    ELSE IF items[i].kind = "newline" THEN Paint(items, i + 1, 0, cy + 1)
    ELSE {<< cx, cy, items[i].segment >>}
         \cup Paint(items, i + 1, cx + cell_len(items[i].segment), cy)

Painted(items) == Paint(items, 1, 0, 0)

(***************************************************************************)
(* Rendering entry points and update_widgets.                              *)
(***************************************************************************)
\* render_full_update once _render_chops has returned chops
render_full_update_of(screen_region, chops) ==
    [self |-> chops.self,
     kind |-> "LayoutUpdate",
     error |-> chops.error,
     items |-> IF chops.error THEN << >>
               ELSE LayoutUpdate_console(
                        [row \in 1 .. Len(chops.value) |->
                            join([k \in 1 .. Len(chops.value[row]) |->
                                     chops.value[row][k].strip])],
                        screen_region, 1),
     spans |-> << >>,
     chops |-> chops.value,
     crop |-> screen_region]

\* the same without self._dirty_regions.clear()
render_full_update_dirty_kept(c, t) ==
    render_full_update_of(size_region(c.size),
                          _render_chops(c, t, size_region(c.size), Int))

\* Compositor.render_full_update
render_full_update(c, t) ==
    render_full_update_of(
        size_region(c.size),
        _render_chops([c EXCEPT !._dirty_regions = {}], t, size_region(c.size), Int))

\* what render_partial_update returns once the ChopsUpdate is written out
render_partial_update_result(crop, spans, chops, cu, console) ==
    [self |-> cu.self,
     kind |-> "ChopsUpdate",
     error |-> chops.error \/ console.error,
     items |-> IF chops.error THEN << >> ELSE console.items,
     spans |-> spans,
     chops |-> chops.value,
     crop |-> crop]

\* render_partial_update once self.cuts has returned cu for chop_ends
render_partial_update_cuts(crop, spans, chops, cu) ==
    render_partial_update_result(
        crop, spans, chops, cu,
        ChopsUpdate_console(chops.value, spans,
                            [row \in 1 .. Len(cu.value) |-> Tail(cu.value[row])], 1))

\* render_partial_update once _render_chops has returned chops
render_partial_update_chops(crop, spans, chops) ==
    render_partial_update_cuts(crop, spans, chops, cuts(chops.self))

\* render_partial_update once the spans of the dirty regions are known
render_partial_update_spans(c1, t, crop, spans) ==
    render_partial_update_chops(
        crop, spans,
        _render_chops(c1, t, crop, {spans[i][1] : i \in 1 .. Len(spans)}))

\* Compositor.render_partial_update
render_partial_update(c, t) ==
    LET screen_region == size_region(c.size)
        update_regions == c._dirty_regions
        c1 == [c EXCEPT !._dirty_regions = {}]
    IN IF update_regions = {}
       THEN [self |-> c1, kind |-> "None", error |-> FALSE, items |-> << >>,
             spans |-> << >>, chops |-> << >>, crop |-> screen_region]
       ELSE render_partial_update_spans(
                c1, t, intersection(from_union(update_regions), screen_region),
                _regions_to_spans(SetToSeq(update_regions)))

\* the same choosing the full update only when full is asked for
render_update_as_asked(c, t, full) ==
    IF full THEN render_full_update(c, t) ELSE render_partial_update(c, t)

\* Compositor.render_update(full)
render_update(c, t, full) ==
    IF full \/ size_region(c.size) \in c._dirty_regions
    THEN render_full_update(c, t)
    ELSE render_partial_update(c, t)

\* widget._exchange_repaint_regions(): the widget's pending repaint regions
_exchange_repaint_regions(t, w) == t.repaint[w]

\* the same loop without the intersection with the clip
update_widgets_regions_unclipped(t, ws, vw) ==
    LET both == {i \in 1 .. Len(vw.value) : vw.value[i].widget \in ws}
    IN [self |-> [vw.self EXCEPT !._dirty_regions =
                     @ \cup {r \in UNION {
                          {translate(dirty_region,
                                     region_offset(vw.value[i].region)) :
                              dirty_region \in
                                  _exchange_repaint_regions(t, vw.value[i].widget)} :
                          i \in both} : NonEmpty(r)}],
        drained |-> {vw.value[i].widget : i \in both}]

\* the same loop with the regions replacing the dirty regions
update_widgets_regions_replacing(t, ws, vw) ==
    LET both == {i \in 1 .. Len(vw.value) : vw.value[i].widget \in ws}
    IN [self |-> [vw.self EXCEPT !._dirty_regions =
                     {r \in UNION {
                          {intersection(vw.value[i].clip,
                                        translate(dirty_region,
                                                  region_offset(vw.value[i].region))) :
                              dirty_region \in
                                  _exchange_repaint_regions(t, vw.value[i].widget)} :
                          i \in both} : NonEmpty(r)}],
        drained |-> {vw.value[i].widget : i \in both}]

\* the loop of update_widgets over the visible widgets, vw being what
\* self.visible_widgets returned
update_widgets_regions(t, ws, vw) ==
    LET both == {i \in 1 .. Len(vw.value) : vw.value[i].widget \in ws}
        regions ==
            {r \in UNION {
                    {intersection(vw.value[i].clip,
                                  translate(dirty_region,
                                            region_offset(vw.value[i].region))) :
                        dirty_region \in _exchange_repaint_regions(t, vw.value[i].widget)} :
                    i \in both} : NonEmpty(r)}
    IN [self |-> [vw.self EXCEPT !._dirty_regions = @ \cup regions],
        drained |-> {vw.value[i].widget : i \in both}]

\* update_widgets without the check that opens it
update_widgets_unchecked(c, t, ws, vw0) ==
    update_widgets_regions(t, ws, visible_widgets(vw0.self))

\* the check that opens update_widgets, vw0 being the visible widgets it
\* looks the given widgets up in
update_widgets_checked(c, t, ws, vw0) ==
    update_widgets_regions(
        t, ws,
        visible_widgets(
            IF /\ ~c._full_map_invalidated
               /\ ~(ws \subseteq {vw0.value[i].widget : i \in 1 .. Len(vw0.value)})
            THEN [vw0.self EXCEPT !._full_map_invalidated = TRUE]
            ELSE vw0.self))

\* Compositor.update_widgets(widgets): drained is the set of widgets whose
\* repaint regions the call took
update_widgets(c, t, ws) ==
    update_widgets_checked(
        c, t, ws,
        IF ~c._full_map_invalidated THEN visible_widgets(c)
        ELSE [self |-> c, value |-> << >>])

\* Widget.visible: the visibility the widget's styles resolve to
widget_visible(t, w) ==
    LET own == get_rule_visibility(t, w)
    IN IF own # "unset" THEN own = "visible"
       ELSE IF w = "root" THEN TRUE
       ELSE get_rule_visibility(t, "root") # "hidden"

\* what get_widget_at returns: the first hit, or NoWidget
get_widget_at_result(lv, hits) ==
    [self |-> lv.self,
     found |-> hits # << >>,
     widget |-> IF hits # << >> THEN hits[1].widget ELSE "NoWidget",
     region |-> IF hits # << >> THEN hits[1].region ELSE Region(0, 0, 0, 0)]

\* get_widget_at once layers_visible has returned lv
get_widget_at_of(t, x, y, lv) ==
    get_widget_at_result(
        lv,
        IF Len(lv.value) > y /\ y >= 0
        THEN SelectSeq(lv.value[y + 1],
                       LAMBDA e : contains(e.cropped_region, x, y)
                                  /\ widget_visible(t, e.widget))
        ELSE << >>)

\* Compositor.get_widget_at(x, y): found is FALSE when NoWidget is raised
get_widget_at(c, t, x, y) == get_widget_at_of(t, x, y, layers_visible(c))

\* get_offset once full_map has returned fm: the KeyError of the lookup is
\* turned into NoWidget
get_offset_full(widget, fm) ==
    IF widget \in Keys(fm.value)
    THEN [self |-> fm.self, raised |-> "none",
          value |-> region_offset(Geometry(fm.value, widget).region)]
    ELSE [self |-> fm.self, raised |-> "NoWidget", value |-> NULL_OFFSET]

\* Compositor.get_offset(widget): raised names the exception the call ends
\* with, "none" when it returns
get_offset(c, t, widget) ==
    IF ~IsNone(c._visible_map) /\ widget \in Keys(Get(c._visible_map))
    THEN [self |-> c, raised |-> "none",
          value |-> region_offset(Geometry(Get(c._visible_map), widget).region)]
    ELSE get_offset_full(widget, full_map(c, t))

\* list[y] of Python: a negative y counts from the end, a y that is no
\* index of the list raises IndexError; the result is the 1-based position,
\* 0 when there is none
list_index(n, y) ==
    IF 0 <= y /\ y < n THEN y + 1
    ELSE IF y < 0 /\ -n <= y THEN n + y + 1
    ELSE 0

\* get_widgets_at once layers_visible has returned lv; value is the list of
\* the (widget, region) yielded
get_widgets_at_of(t, x, y, lv) ==
    IF list_index(Len(lv.value), y) = 0
    THEN [self |-> lv.self, raised |-> "IndexError", value |-> << >>]
    ELSE [self |-> lv.self, raised |-> "none",
          value |-> SelectSeq(lv.value[list_index(Len(lv.value), y)],
                              LAMBDA e : contains(e.cropped_region, x, y)
                                         /\ widget_visible(t, e.widget))]

\* list(Compositor.get_widgets_at(x, y)): the generator run to its end
get_widgets_at(c, t, x, y) == get_widgets_at_of(t, x, y, layers_visible(c))

\* find_widget once full_map has returned fm
find_widget_full(widget, fm) ==
    IF widget \in Keys(fm.value)
    THEN [self |-> fm.self, raised |-> "none", found |-> TRUE,
          value |-> Some(Geometry(fm.value, widget))]
    ELSE [self |-> fm.self, raised |-> "NoWidget", found |-> FALSE,
          value |-> None]

\* Compositor.find_widget(widget): the MapGeometry of the widget, looked up
\* in _full_map, then in _visible_map, then in the full_map property
find_widget(c, t, widget) ==
    IF IsNone(c.root)
    THEN [self |-> c, raised |-> "NoWidget", found |-> FALSE, value |-> None]
    ELSE IF widget \in Keys(c._full_map)
    THEN [self |-> c, raised |-> "none", found |-> TRUE,
          value |-> Some(Geometry(c._full_map, widget))]
    ELSE IF ~IsNone(c._visible_map) /\ widget \in Keys(Get(c._visible_map))
    THEN [self |-> c, raised |-> "none", found |-> TRUE,
          value |-> Some(Geometry(Get(c._visible_map), widget))]
    ELSE find_widget_full(widget, full_map(c, t))

(***************************************************************************)
(* State: the fields of the one Compositor, the widget tree the toolkit    *)
(* writes, and what the last call returned.                                *)
(***************************************************************************)
VARIABLES
    _full_map,              \* Compositor._full_map
    _full_map_invalidated,  \* Compositor._full_map_invalidated
    _visible_map,           \* Compositor._visible_map (None or a map)
    _layers,                \* Compositor._layers cache
    widgets,                \* Compositor.widgets
    _visible_widgets,       \* Compositor._visible_widgets cache
    root,                   \* Compositor.root (None or a widget)
    size,                   \* Compositor.size
    _cuts,                  \* Compositor._cuts cache
    _dirty_regions,         \* Compositor._dirty_regions
    _layers_visible,        \* Compositor._layers_visible cache
    scroll_y,               \* the root's scroll_offset.y
    visibility,             \* the visibility rule of each styled widget
    layout,                 \* the arrangement the root's layout produces
    opacity,                \* the opacity of each widget
    repaint,                \* each widget's pending repaint regions
    ret,                    \* the last call and what it returned
    ops                     \* number of steps taken

compositor == << _full_map, _full_map_invalidated, _visible_map, _layers, widgets,
                 _visible_widgets, root, size, _cuts, _dirty_regions,
                 _layers_visible >>
tree == << scroll_y, visibility, layout, opacity, repaint >>
vars == << compositor, tree, ret, ops >>

\* the Compositor object in the current state
Self ==
    [_full_map |-> _full_map,
     _full_map_invalidated |-> _full_map_invalidated,
     _visible_map |-> _visible_map,
     _layers |-> _layers,
     widgets |-> widgets,
     _visible_widgets |-> _visible_widgets,
     root |-> root,
     size |-> size,
     _cuts |-> _cuts,
     _dirty_regions |-> _dirty_regions,
     _layers_visible |-> _layers_visible]

\* the widget tree in the current state
Tree ==
    [scroll_y |-> scroll_y, visibility |-> visibility, layout |-> layout,
     opacity |-> opacity, repaint |-> repaint]

\* the object after a call becomes the state
Becomes(c) ==
    /\ _full_map' = c._full_map
    /\ _full_map_invalidated' = c._full_map_invalidated
    /\ _visible_map' = c._visible_map
    /\ _layers' = c._layers
    /\ widgets' = c.widgets
    /\ _visible_widgets' = c._visible_widgets
    /\ root' = c.root
    /\ size' = c.size
    /\ _cuts' = c._cuts
    /\ _dirty_regions' = c._dirty_regions
    /\ _layers_visible' = c._layers_visible

\* the record of a call: every field has a value, a call sets its own
NoCall ==
    [op |-> "none", hidden |-> {}, shown |-> {}, resized |-> {}, exposed |-> {},
     old_map |-> << >>, value |-> << >>, arranged |-> FALSE, found |-> FALSE,
     widget |-> "NoWidget", x |-> 0, y |-> 0, kind |-> "None", error |-> FALSE,
     painted |-> {}, spans |-> << >>, chops |-> << >>, full |-> FALSE,
     given |-> {}, drained |-> {}, was_dirty |-> {}, was_invalidated |-> FALSE,
     crop |-> Region(0, 0, 0, 0), raised |-> "none"]

\* the cells get_widget_at is asked about
Points == {<< 1, 0 >>, << 3, 1 >>}
\* the most regions _regions_to_spans is given at once
MaxRegions == 3
\* the cells get_widgets_at is asked about: the same and one above the screen
QueryPoints == Points \cup {<< 0, -1 >>}
\* the widget sets update_widgets is called with
UpdateSets == {{"A"}, {"bar"}, {"A", "B"}}
\* the widget-local region a refresh of a widget queues
RepaintRegion == Region(0, 0, 2, 1)

\* the styles the tree starts with: the root's visibility rule, the widgets
\* of opacity 0 and the widgets with a repaint region queued
Starts ==
    {[root_rule |-> "unset", clear |-> {}, queued |-> {}],
     [root_rule |-> "unset", clear |-> {}, queued |-> {"bar"}],
     [root_rule |-> "unset", clear |-> {"A"}, queued |-> {}],
     [root_rule |-> "hidden", clear |-> {}, queued |-> {}]}

Init ==
    /\ _full_map = Compositor_init._full_map
    /\ _full_map_invalidated = Compositor_init._full_map_invalidated
    /\ _visible_map = Compositor_init._visible_map
    /\ _layers = Compositor_init._layers
    /\ widgets = Compositor_init.widgets
    /\ _visible_widgets = Compositor_init._visible_widgets
    /\ root = Compositor_init.root
    /\ size = Compositor_init.size
    /\ _cuts = Compositor_init._cuts
    /\ _dirty_regions = Compositor_init._dirty_regions
    /\ _layers_visible = Compositor_init._layers_visible
    /\ scroll_y = 0
    /\ \E start \in Starts :
          /\ visibility = [w \in Styled |-> IF w = "root" THEN start.root_rule
                                             ELSE "visible"]
          /\ opacity = [w \in Widgets |-> IF w \in start.clear THEN 0 ELSE 1]
          /\ repaint = [w \in Widgets |-> IF w \in start.queued
                                           THEN {RepaintRegion} ELSE {}]
    /\ layout \in LayoutNames
    /\ ret = NoCall
    /\ ops = 0

Step == ops < MaxOps /\ ops' = ops + 1

\* compositor.reflow(root, size)
Reflow(sz) ==
    /\ Step
    /\ \E r \in {reflow(Self, Tree, "root", sz)} :
          /\ Becomes(r.self)
          /\ ret' = [NoCall EXCEPT !.op = "reflow", !.hidden = r.hidden,
                                   !.shown = r.shown, !.resized = r.resized,
                                   !.old_map = _full_map,
                                   !.was_dirty = _dirty_regions,
                                   !.was_invalidated = _full_map_invalidated]
    /\ UNCHANGED tree

\* compositor.reflow_visible(root, size)
ReflowVisible(sz) ==
    /\ Step
    /\ \E r \in {reflow_visible(Self, Tree, "root", sz)} :
          /\ Becomes(r.self)
          /\ ret' = [NoCall EXCEPT !.op = "reflow_visible", !.exposed = r.exposed,
                                   !.old_map = IF ~IsNone(_visible_map)
                                               THEN Get(_visible_map)
                                               ELSE _full_map,
                                   !.was_dirty = _dirty_regions]
    /\ UNCHANGED tree

\* compositor.full_map
FullMap ==
    /\ Step
    /\ \E r \in {full_map(Self, Tree)} :
          /\ Becomes(r.self)
          /\ ret' = [NoCall EXCEPT !.op = "full_map", !.value = r.value,
                                   !.arranged = r.arranged,
                                   !.was_invalidated = _full_map_invalidated]
    /\ UNCHANGED tree

\* compositor.cuts
Cuts ==
    /\ Step
    /\ \E r \in {cuts(Self)} :
          /\ Becomes(r.self)
          /\ ret' = [NoCall EXCEPT !.op = "cuts", !.value = r.value]
    /\ UNCHANGED tree

\* compositor.get_widget_at(x, y)
GetWidgetAt(p) ==
    /\ Step
    /\ \E r \in {get_widget_at(Self, Tree, p[1], p[2])} :
          /\ Becomes(r.self)
          /\ ret' = [NoCall EXCEPT !.op = "get_widget_at", !.found = r.found,
                                   !.widget = r.widget, !.x = p[1], !.y = p[2],
                                   !.raised = IF r.found THEN "none"
                                              ELSE "NoWidget"]
    /\ UNCHANGED tree

\* compositor.render_update(full)
RenderUpdate(full) ==
    /\ Step
    /\ \E r \in {render_update(Self, Tree, full)} :
          /\ Becomes(r.self)
          /\ ret' = [NoCall EXCEPT !.op = "render_update", !.kind = r.kind,
                                   !.error = r.error, !.full = full,
                                   !.painted = Painted(r.items),
                                   !.spans = r.spans, !.chops = r.chops,
                                   !.crop = r.crop,
                                   !.was_dirty = _dirty_regions]
    /\ UNCHANGED tree

\* compositor.update_widgets(widgets)
UpdateWidgets(ws) ==
    /\ Step
    /\ \E r \in {update_widgets(Self, Tree, ws)} :
          /\ Becomes(r.self)
          /\ ret' = [NoCall EXCEPT !.op = "update_widgets", !.given = ws,
                                   !.drained = r.drained,
                                   !.was_dirty = _dirty_regions,
                                   !.was_invalidated = _full_map_invalidated]
          /\ repaint' = [w \in Widgets |-> IF w \in r.drained THEN {} ELSE repaint[w]]
    /\ UNCHANGED << scroll_y, visibility, layout, opacity >>

\* compositor.get_offset(widget)
GetOffset(w) ==
    /\ Step
    /\ \E r \in {get_offset(Self, Tree, w)} :
          /\ Becomes(r.self)
          /\ ret' = [NoCall EXCEPT !.op = "get_offset", !.given = {w},
                                   !.raised = r.raised, !.value = r.value,
                                   !.was_invalidated = _full_map_invalidated]
    /\ UNCHANGED tree

\* list(compositor.get_widgets_at(x, y))
GetWidgetsAt(p) ==
    /\ Step
    /\ \E r \in {get_widgets_at(Self, Tree, p[1], p[2])} :
          /\ Becomes(r.self)
          /\ ret' = [NoCall EXCEPT !.op = "get_widgets_at", !.x = p[1],
                                   !.y = p[2], !.raised = r.raised,
                                   !.value = r.value]
    /\ UNCHANGED tree

\* compositor.find_widget(widget)
FindWidget(w) ==
    /\ Step
    /\ \E r \in {find_widget(Self, Tree, w)} :
          /\ Becomes(r.self)
          /\ ret' = [NoCall EXCEPT !.op = "find_widget", !.given = {w},
                                   !.raised = r.raised, !.found = r.found,
                                   !.value = r.value,
                                   !.was_invalidated = _full_map_invalidated]
    /\ UNCHANGED tree

\* compositor.layers
Layers ==
    /\ Step
    /\ \E r \in {layers(Self)} :
          /\ Becomes(r.self)
          /\ ret' = [NoCall EXCEPT !.op = "layers", !.value = r.value]
    /\ UNCHANGED tree

(***************************************************************************)
(* The toolkit changes the widget tree between two calls.                  *)
(***************************************************************************)
\* the root container is scrolled
Scroll(v) ==
    /\ Step
    /\ v # scroll_y
    /\ scroll_y' = v
    /\ ret' = [NoCall EXCEPT !.op = "scroll"]
    /\ UNCHANGED << compositor, visibility, layout, opacity, repaint >>

\* the visibility rule of child A is switched
SetVisibility ==
    /\ Step
    /\ visibility' = [visibility EXCEPT !["A"] = IF @ = "hidden" THEN "visible"
                                                  ELSE "hidden"]
    /\ ret' = [NoCall EXCEPT !.op = "set_visibility"]
    /\ UNCHANGED << compositor, scroll_y, layout, opacity, repaint >>

\* the root's children are laid out afresh
SetLayout(l) ==
    /\ Step
    /\ l # layout
    /\ layout' = l
    /\ ret' = [NoCall EXCEPT !.op = "set_layout"]
    /\ UNCHANGED << compositor, scroll_y, visibility, opacity, repaint >>

\* widget.refresh(): a repaint region is queued on the widget
Refresh(w) ==
    /\ Step
    /\ repaint[w] = {}
    /\ repaint' = [repaint EXCEPT ![w] = {RepaintRegion}]
    /\ ret' = [NoCall EXCEPT !.op = "refresh"]
    /\ UNCHANGED << compositor, scroll_y, visibility, layout, opacity >>

Next ==
    \/ \E sz \in Sizes : Reflow(sz)
    \/ \E sz \in Sizes : ReflowVisible(sz)
    \/ FullMap
    \/ Cuts
    \/ \E p \in Points : GetWidgetAt(p)
    \/ \E full \in BOOLEAN : RenderUpdate(full)
    \/ \E ws \in UpdateSets : UpdateWidgets(ws)
    \/ \E v \in 0 .. MaxScroll : Scroll(v)
    \/ SetVisibility
    \/ \E l \in LayoutNames : SetLayout(l)
    \/ \E w \in Leaves : Refresh(w)

Spec == Init /\ [][Next]_vars

\* the same with the spatial queries and the layers property, which leave the
\* maps, the dirty regions and the widget tree as the calls of Next leave them
NextQueries ==
    \/ Next
    \/ \E w \in Widgets : GetOffset(w)
    \/ \E p \in QueryPoints : GetWidgetsAt(p)
    \/ \E w \in Widgets : FindWidget(w)
    \/ Layers

SpecQueries == Init /\ [][NextQueries]_vars

(***************************************************************************)
(* Properties of reflow and of the stacking of siblings.                   *)
(***************************************************************************)
\* the last triple of an order tuple: (layer index, z, layer_order)
Last(order) == order[Len(order)]

\* every cache the compositor holds is what it would compute afresh from
\* the map in force
CachesCurrent ==
    LET fresh == [Self EXCEPT !._visible_widgets = None,
                              !._layers_visible = None, !._cuts = None]
    IN /\ ~IsNone(_visible_widgets)
            => Get(_visible_widgets) = visible_widgets(fresh).value
       /\ ~IsNone(_layers_visible)
            => Get(_layers_visible) = layers_visible(fresh).value
       /\ ~IsNone(_cuts) => Get(_cuts) = cuts(fresh).value

\* C1: reflow's hidden set is the keys of the map before the call minus the
\* keys of the map after it.
C1_HiddenIsOldMinusNew ==
    ret.op = "reflow" => ret.hidden = Keys(ret.old_map) \ Keys(_full_map)

\* the siblings A (declared first) and B (declared second) are both in the
\* map in force on the same layer with the same z, and the screen cell
\* (x, y) lies in the visible region of both
SiblingsOverlap(x, y) ==
    LET m == map_in_force(Self)
    IN /\ {"A", "B"} \subseteq Keys(m)
       /\ Last(Geometry(m, "A").order)[1] = Last(Geometry(m, "B").order)[1]
       /\ Last(Geometry(m, "A").order)[2] = Last(Geometry(m, "B").order)[2]
       /\ contains(visible_region(Geometry(m, "A")), x, y)
       /\ contains(visible_region(Geometry(m, "B")), x, y)
       /\ x < size.width
       /\ y < size.height

\* get_widget_at was asked about a cell where the siblings overlap
AskedAtOverlap ==
    /\ ret.op = "get_widget_at"
    /\ CachesCurrent
    /\ SiblingsOverlap(ret.x, ret.y)

\* a rendering was emitted without error
Rendered == ret.op = "render_update" /\ ~ret.error /\ CachesCurrent

\* C2 (as stated): where two siblings of the same layer and z overlap, the
\* sibling declared first is on top: get_widget_at returns A and the painted
\* cells of the overlap carry A's content.
C2_EarlierSiblingOnTop ==
    /\ AskedAtOverlap => ret.widget = "A"
    /\ Rendered => \A p \in ret.painted :
                      SiblingsOverlap(p[1], p[2]) => p[3].w = "A"

\* C2 (amended): where two siblings of the same layer and z overlap, the
\* sibling declared later is on top: get_widget_at returns B and the painted
\* cells of the overlap carry B's content.
C2_LaterSiblingOnTop ==
    /\ AskedAtOverlap => ret.widget = "B"
    /\ Rendered => \A p \in ret.painted :
                      SiblingsOverlap(p[1], p[2]) => p[3].w = "B"

\* C2's case: get_widget_at answered for a cell where the siblings overlap
C2_Witness == AskedAtOverlap /\ ret.found /\ ret.widget = "B"

\* C3: after a reflow, a second reflow with the same root and size on an
\* unchanged tree leaves full_map as the first left it, and reports nothing
\* hidden, shown or resized.
C3_ReflowIdempotent ==
    ret.op = "reflow" =>
        LET first == full_map(Self, Tree)
            again == reflow(first.self, Tree, "root", size)
            second == full_map(again.self, Tree)
        IN /\ Items(second.value) = Items(first.value)
           /\ again.hidden = {}
           /\ again.shown = {}
           /\ again.resized = {}

(***************************************************************************)
(* Properties of the chops.                                                *)
(***************************************************************************)
\* a render_update returned chops
Chopped == Rendered /\ ret.kind # "None"

\* the rows the render accepted (is_rendered_line) that are lines of chops
RenderedRows ==
    IF ret.kind = "LayoutUpdate" THEN 0 .. (Len(ret.chops) - 1)
    ELSE {ret.spans[i][1] : i \in 1 .. Len(ret.spans)}
             \cap (0 .. (Len(ret.chops) - 1))

\* the visible widgets of the render, front to back, and their visible
\* rectangles
VW == Get(_visible_widgets)
Vis(i) == intersection(VW[i].region, VW[i].clip)
IndexOf(w) == CHOOSE i \in 1 .. Len(VW) : VW[i].widget = w

\* slot k of row y spans the columns from its cut to the next cut
SlotRight(y, k) ==
    IF k < Len(ret.chops[y + 1]) THEN ret.chops[y + 1][k + 1].cut ELSE size.width
SlotInside(y, k, r) ==
    /\ r.y <= y
    /\ y < r.y + r.height
    /\ r.x <= ret.chops[y + 1][k].cut
    /\ SlotRight(y, k) <= r.x + r.width

\* the widgets whose segments slot k of row y holds
HeldBy(y, k) ==
    LET strip == Get(ret.chops[y + 1][k].strip)
    IN {strip[n].w : n \in 1 .. Len(strip)}

\* widget i of the visible widgets is in front of widget j, both have
\* non-zero opacity and their visible rectangles overlap
FrontAndBack(i, j) ==
    /\ i < j
    /\ opacity[VW[i].widget] > 0
    /\ opacity[VW[j].widget] > 0
    /\ overlaps(Vis(i), Vis(j))

\* every slot of a rendered row inside both rectangles holds a fragment of
\* widget i or of a widget in front of it
FrontHolds(i, j) ==
    \A y \in RenderedRows : \A k \in 1 .. Len(ret.chops[y + 1]) :
        SlotInside(y, k, intersection(Vis(i), Vis(j))) =>
            /\ ~IsNone(ret.chops[y + 1][k].strip)
            /\ \A w \in HeldBy(y, k) : IndexOf(w) <= i

\* the render draws widget i: its clip overlaps the crop (_get_renders)
Drawn(i) == ~NonEmpty(ret.crop) \/ overlaps(ret.crop, VW[i].clip)

\* C4 (as stated): for any two visible widgets with non-zero opacity whose
\* visible rectangles overlap, every chop slot inside both rectangles on a
\* rendered line holds a fragment of the front one or of a widget in front
\* of it.
C4_FrontWinsInChops ==
    Chopped => \A i, j \in 1 .. Len(VW) : FrontAndBack(i, j) => FrontHolds(i, j)

\* C4 (amended): the same, for a front widget the render draws, that is one
\* whose clip overlaps the crop of the render; a slot once written is not
\* overwritten by a widget further back.
C4_FrontWinsAmongDrawn ==
    Chopped => \A i, j \in 1 .. Len(VW) :
                  (FrontAndBack(i, j) /\ Drawn(i)) => FrontHolds(i, j)

\* C4's case: a partial update chopped a row where a drawn front widget and
\* a widget behind it share a slot, which the front widget holds
C4_Witness ==
    /\ Chopped
    /\ ret.kind = "ChopsUpdate"
    /\ \E i, j \in 1 .. Len(VW) :
          /\ FrontAndBack(i, j)
          /\ Drawn(i)
          /\ \E y \in RenderedRows : \E k \in 1 .. Len(ret.chops[y + 1]) :
                /\ SlotInside(y, k, intersection(Vis(i), Vis(j)))
                /\ HeldBy(y, k) = {VW[i].widget}

(***************************************************************************)
(* _regions_to_spans on its own: the classmethod applied to every sequence *)
(* of at most MaxRegions regions of a small grid.                          *)
(***************************************************************************)
SpanRegions ==
    {r \in {Region(x, y, w, h) :
                x \in {0, 1, 3}, y \in {0, 1}, w \in {0, 1, 2}, h \in {1, 2}} :
        r.y + r.height <= 2}

RECURSIVE SeqsUpTo(_, _)
SeqsUpTo(S, n) ==
    IF n = 0 THEN {<< >>}
    ELSE LET shorter == SeqsUpTo(S, n - 1)
         IN shorter \cup {Append(q, e) : q \in shorter, e \in S}

InitSpans ==
    /\ _full_map = Compositor_init._full_map
    /\ _full_map_invalidated = Compositor_init._full_map_invalidated
    /\ _visible_map = Compositor_init._visible_map
    /\ _layers = Compositor_init._layers
    /\ widgets = Compositor_init.widgets
    /\ _visible_widgets = Compositor_init._visible_widgets
    /\ root = Compositor_init.root
    /\ size = Compositor_init.size
    /\ _cuts = Compositor_init._cuts
    /\ _dirty_regions = Compositor_init._dirty_regions
    /\ _layers_visible = Compositor_init._layers_visible
    /\ scroll_y = 0
    /\ visibility = [w \in Styled |-> "visible"]
    /\ opacity = [w \in Widgets |-> 1]
    /\ repaint = [w \in Widgets |-> {}]
    /\ layout = "overlap"
    /\ \E regions \in SeqsUpTo(SpanRegions, MaxRegions) :
          ret = [NoCall EXCEPT !.op = "regions", !.given = regions]
    /\ ops = 0

\* list(Compositor._regions_to_spans(regions))
RegionsToSpans ==
    /\ ret.op = "regions"
    /\ ret' = [ret EXCEPT !.op = "_regions_to_spans",
                          !.value = _regions_to_spans(ret.given)]
    /\ UNCHANGED << compositor, tree, ops >>

NextSpans == RegionsToSpans

SpecSpans == InitSpans /\ [][NextSpans]_vars

\* the cells of a span << y, x1, x2 >>
SpanCells(span) == {<< x, span[1] >> : x \in span[2] .. (span[3] - 1)}

\* C5: the spans come in ascending (y, x1) order, their union as a cell set
\* is the union of the regions given, and no two spans of a row overlap or
\* touch.
C5_SpansPartition ==
    ret.op = "_regions_to_spans" =>
        LET spans == ret.value
            regions == ret.given
        IN /\ \A i, j \in 1 .. Len(spans) :
                 i < j => \/ spans[i][1] < spans[j][1]
                          \/ /\ spans[i][1] = spans[j][1]
                             /\ spans[i][2] < spans[j][2]
           /\ UNION {SpanCells(spans[i]) : i \in 1 .. Len(spans)}
                 = UNION {Cells(regions[i]) : i \in 1 .. Len(regions)}
           /\ \A i, j \in 1 .. Len(spans) :
                 (i # j /\ spans[i][1] = spans[j][1]) =>
                     \/ spans[i][3] < spans[j][2]
                     \/ spans[j][3] < spans[i][2]

\* C5's case: three regions of one row, the second overlapping the first and
\* the third touching the second, came out as a single span
C5_Witness ==
    /\ ret.op = "_regions_to_spans"
    /\ ret.given = << Region(0, 0, 2, 1), Region(1, 0, 2, 1), Region(3, 0, 1, 1) >>
    /\ ret.value = << << 0, 0, 4 >> >>

(***************************************************************************)
(* Properties of the two updates, of the maps and of the caches.           *)
(***************************************************************************)
\* the dirty regions together cover every cell of a non-empty screen
DirtyCoversScreen ==
    /\ NonEmpty(size_region(size))
    /\ Cells(size_region(size)) \subseteq UNION {Cells(r) : r \in _dirty_regions}

\* C6: when the dirty regions together cover the screen, the partial update
\* emits what the full update emits for the same composition: neither fails
\* unless the other does, and they paint the same (cell, content) pairs.
C6_FullPartialEquivalent ==
    DirtyCoversScreen =>
        LET partial == render_partial_update(Self, Tree)
            full == render_full_update(Self, Tree)
        IN /\ partial.error = full.error
           /\ Painted(partial.items) = Painted(full.items)

\* the maps _arrange_root produced that the compositor holds
HeldMaps == {_full_map} \cup (IF IsNone(_visible_map) THEN {} ELSE {Get(_visible_map)})

\* the scrollbar chrome widgets
Chrome == {"bar"}

\* C7 (as stated): in every map _arrange_root produced no two distinct
\* widgets have the same order tuple, chrome and its owner included.
C7_OrdersDistinct ==
    \A m \in HeldMaps : \A w1, w2 \in Keys(m) :
        w1 # w2 => Geometry(m, w1).order # Geometry(m, w2).order

\* C7 (amended): in every map _arrange_root produced no two distinct widgets
\* other than scrollbar chrome have the same order tuple; a chrome widget
\* has the order tuple of the scrollable widget that owns it.
C7_OrdersDistinctButChrome ==
    \A m \in HeldMaps :
        /\ \A w1, w2 \in Keys(m) \ Chrome :
              w1 # w2 => Geometry(m, w1).order # Geometry(m, w2).order
        /\ \A w \in Keys(m) \cap Chrome :
              /\ "root" \in Keys(m)
              /\ Geometry(m, w).order = Geometry(m, "root").order

\* C7's case: a full map and a visible-only map are held, the full map with
\* the root, both children and the chrome
C7_Witness ==
    /\ ~IsNone(_visible_map)
    /\ Keys(_full_map) = {"root", "A", "B", "bar"}
    /\ Keys(Get(_visible_map)) # {}

\* C8: after a reflow or a reflow_visible, every key of the map the call
\* produced, chrome included, is a member of widgets.
C8_WidgetsCoverMap ==
    /\ ret.op = "reflow" => Keys(_full_map) \subseteq widgets
    /\ ret.op = "reflow_visible" => Keys(Get(_visible_map)) \subseteq widgets

\* a screen is laid out
LaidOut == ~IsNone(root)

\* the left and right edges of the visible rectangles of the visible widgets
\* that span row y
EdgesOnRow(y) ==
    LET vw == visible_widgets(Self).value
    IN UNION {LET r == intersection(vw[i].region, vw[i].clip)
              IN IF NonEmpty(r) /\ r.y <= y /\ y < r.y + r.height
                 THEN {r.x, r.x + r.width} ELSE {} : i \in 1 .. Len(vw)}

\* C9: with a screen laid out, cuts has one row per screen row, each
\* strictly increasing from 0 to the width, and every entry is 0, the width
\* or an edge of the visible rectangle of a visible widget spanning the row.
C9_CutsInvariant ==
    LaidOut =>
        LET rows == cuts(Self).value
        IN /\ Len(rows) = size.height
           /\ \A y \in 1 .. Len(rows) :
                 /\ Len(rows[y]) >= 1
                 /\ rows[y][1] = 0
                 /\ rows[y][Len(rows[y])] = size.width
                 /\ \A k \in 1 .. (Len(rows[y]) - 1) : rows[y][k] < rows[y][k + 1]
                 /\ \A k \in 1 .. Len(rows[y]) :
                       rows[y][k] \in {0, size.width} \cup EdgesOnRow(y - 1)

\* C10: a completed reflow leaves the full map valid: the stale flag is
\* false, no visible-only map is installed, and the next full_map access
\* returns the map of that reflow without arranging again.
C10_ReflowLaysOut ==
    ret.op = "reflow" =>
        /\ ~_full_map_invalidated
        /\ IsNone(_visible_map)
        /\ ~full_map(Self, Tree).arranged
        /\ full_map(Self, Tree).value = _full_map

(***************************************************************************)
(* Properties of the lazily rebuilt full map and of what reflow arranges.  *)
(***************************************************************************)
\* C11: a full_map access that finds the map stale arranges again, returns
\* the map it stored and clears the stale flag; and every populated derived
\* cache (visible_widgets, layers, layers_visible, cuts) is what would be
\* recomputed from the map in force.
C11_CachesFollowMap ==
    /\ (ret.op = "full_map" /\ ret.was_invalidated /\ LaidOut) =>
          /\ ret.arranged
          /\ ret.value = _full_map
          /\ ~_full_map_invalidated
    /\ CachesCurrent
    /\ ~IsNone(_layers) => Get(_layers) = layers([Self EXCEPT !._layers = None]).value

\* C12: after a reflow the full map has an entry for every widget of the
\* tree whose effective visibility is visible, the children whose placement
\* lies outside the viewport of their container included.
C12_ReflowArrangesAll ==
    ret.op = "reflow" =>
        \A w \in Styled : widget_visible(Tree, w) => w \in Keys(_full_map)

(***************************************************************************)
(* Properties of the spatial queries.                                      *)
(***************************************************************************)
\* the coordinates the queries are tried with in every state: on the screen
\* and off each of its four sides
Coordinates == -1 .. 4

\* C13: in every reachable state get_offset and find_widget for every
\* widget, and get_widget_at and get_widgets_at for every coordinate pair,
\* on or off the screen, return or fail with NoWidget, and with nothing else.
C13_QueriesRaiseOnlyNoWidget ==
    /\ ret.raised \in {"none", "NoWidget"}
    /\ \A w \in Widgets :
          /\ get_offset(Self, Tree, w).raised \in {"none", "NoWidget"}
          /\ find_widget(Self, Tree, w).raised \in {"none", "NoWidget"}
    /\ \A x, y \in Coordinates :
          get_widgets_at(Self, Tree, x, y).raised \in {"none", "NoWidget"}

(***************************************************************************)
(* ChopsUpdate on its own: the renderable built from every line of chops   *)
(* of MaxColumns columns, the strips made of segments one or two cells     *)
(* wide, and written out for one or two spans of the line.                 *)
(***************************************************************************)
\* the width of the line of chops
MaxColumns == 4

\* the strips that fill n cells from column x on
RECURSIVE Strips(_, _)
Strips(x, n) ==
    IF n = 0 THEN {<< >>}
    ELSE {<< [w |-> "A", x |-> x, y |-> 0, len |-> 1] >> \o rest :
              rest \in Strips(x + 1, n - 1)}
         \cup (IF n >= 2
               THEN {<< [w |-> "A", x |-> x, y |-> 0, len |-> 2] >> \o rest :
                        rest \in Strips(x + 2, n - 2)}
               ELSE {})

\* the lines of chops from column `from` to MaxColumns: every choice of
\* cuts, every slot empty or filled by a strip of its width
RECURSIVE ChopLines(_)
ChopLines(from) ==
    IF from >= MaxColumns THEN {<< >>}
    ELSE UNION {{<< [cut |-> from, strip |-> strip] >> \o rest :
                    strip \in {None} \cup {Some(st) : st \in Strips(from, end - from)},
                    rest \in ChopLines(end)} :
                end \in (from + 1) .. MaxColumns}

\* chop_ends of a line: cut_set[1:]
EndsOf(line) ==
    [k \in 1 .. Len(line) |-> IF k < Len(line) THEN line[k + 1].cut ELSE MaxColumns]

\* the lists of spans of row 0: one span, or two that neither overlap nor
\* touch, in ascending order
SpanLists ==
    {<< << 0, x1, x2 >> >> : x1 \in 0 .. MaxColumns, x2 \in 1 .. MaxColumns}
    \cup {<< << 0, x1, x2 >>, << 0, x3, x4 >> >> :
             x1 \in 0 .. MaxColumns, x2 \in 1 .. MaxColumns,
             x3 \in 0 .. MaxColumns, x4 \in 1 .. MaxColumns}

ValidSpans(spans) ==
    /\ \A i \in 1 .. Len(spans) : spans[i][2] < spans[i][3]
    /\ Len(spans) = 2 => spans[1][3] < spans[2][2]

InitChops ==
    /\ _full_map = Compositor_init._full_map
    /\ _full_map_invalidated = Compositor_init._full_map_invalidated
    /\ _visible_map = Compositor_init._visible_map
    /\ _layers = Compositor_init._layers
    /\ widgets = Compositor_init.widgets
    /\ _visible_widgets = Compositor_init._visible_widgets
    /\ root = Compositor_init.root
    /\ size = Compositor_init.size
    /\ _cuts = Compositor_init._cuts
    /\ _dirty_regions = Compositor_init._dirty_regions
    /\ _layers_visible = Compositor_init._layers_visible
    /\ scroll_y = 0
    /\ visibility = [w \in Styled |-> "visible"]
    /\ opacity = [w \in Widgets |-> 1]
    /\ repaint = [w \in Widgets |-> {}]
    /\ layout = "overlap"
    /\ \E line \in ChopLines(0) : \E spans \in {l \in SpanLists : ValidSpans(l)} :
          ret = [NoCall EXCEPT !.op = "ChopsUpdate", !.kind = "ChopsUpdate",
                               !.chops = << line >>, !.spans = spans]
    /\ ops = 0

\* ChopsUpdate(chops, spans, chop_ends).__rich_console__ written to the
\* terminal
WriteChops ==
    /\ ret.op = "ChopsUpdate"
    /\ \E console \in {ChopsUpdate_console(ret.chops, ret.spans,
                                           << EndsOf(ret.chops[1]) >>, 1)} :
          ret' = [ret EXCEPT !.op = "__rich_console__",
                             !.error = console.error,
                             !.painted = Painted(console.items)]
    /\ UNCHANGED << compositor, tree, ops >>

NextChops == WriteChops

SpecChops == InitChops /\ [][NextChops]_vars

(***************************************************************************)
(* Properties of the updates and of the dirty regions.                     *)
(***************************************************************************)
\* the cells a painted segment covers: from the cursor on, one per cell of
\* its length
PaintedCells(p) == {<< x, p[2] >> : x \in p[1] .. (p[1] + cell_len(p[3]) - 1)}

\* the cells of all spans of an update
InSpans(spans) == UNION {SpanCells(spans[i]) : i \in 1 .. Len(spans)}

\* a ChopsUpdate was written out
Written ==
    \/ ret.op = "__rich_console__"
    \/ ret.op = "render_update" /\ ret.kind = "ChopsUpdate" /\ ~ret.error

\* C14: every cell a ChopsUpdate emits lies inside one of its spans: on the
\* row y of a span (y, x1, x2), at a column of [x1, x2).
C14_EmitsInsideSpans ==
    Written => \A p \in ret.painted : PaintedCells(p) \subseteq InSpans(ret.spans)

\* C15: every render_update, on the full or the partial path, with or
\* without an update returned, leaves the dirty-region set empty and leaves
\* root, size, the full map, the visible map and the stale flag as they were.
C15_RenderOnlyClearsDirty ==
    [][ret'.op = "render_update" =>
          /\ _dirty_regions' = {}
          /\ root' = root
          /\ size' = size
          /\ _full_map' = _full_map
          /\ _visible_map' = _visible_map
          /\ _full_map_invalidated' = _full_map_invalidated]_vars

\* C15's case: a full update was rendered from a laid-out screen whose
\* dirty-region set was not empty and whose visible map was installed
C15_Witness ==
    /\ ret.op = "render_update"
    /\ ret.kind = "LayoutUpdate"
    /\ ret.was_dirty # {}
    /\ ~IsNone(_visible_map)
    /\ _dirty_regions = {}

\* C16: every update_widgets leaves root, size, the full map and the
\* visible map as they were, and the dirty-region set after the call holds
\* every region it held before.
C16_UpdateKeepsGeometry ==
    [][ret'.op = "update_widgets" =>
          /\ root' = root
          /\ size' = size
          /\ _full_map' = _full_map
          /\ _visible_map' = _visible_map
          /\ _dirty_regions \subseteq _dirty_regions']_vars

\* C16's case: update_widgets added a region to a dirty-region set that was
\* not empty, with a screen laid out
C16_Witness ==
    /\ ret.op = "update_widgets"
    /\ LaidOut
    /\ ret.was_dirty # {}
    /\ ret.was_dirty # _dirty_regions
    /\ ret.drained # {}

\* the widgets of visible_widgets
VisibleNow == {visible_widgets(Self).value[i].widget :
                  i \in 1 .. Len(visible_widgets(Self).value)}

\* C17: after update_widgets(W) with a widget of W that is not in
\* visible_widgets the stale flag is true, and a full_map access on a
\* laid-out screen then arranges the tree again, returns the map it stored
\* and clears the flag; with every widget of W in visible_widgets the flag
\* is as it was before the call.
C17_UpdateInvalidatesFullMap ==
    ret.op = "update_widgets" =>
        /\ ~(ret.given \subseteq VisibleNow) =>
              /\ _full_map_invalidated
              /\ LaidOut =>
                    /\ full_map(Self, Tree).arranged
                    /\ full_map(Self, Tree).value
                         = _arrange_root(Tree, Get(root), size, FALSE).map
                    /\ full_map(Self, Tree).self._full_map
                         = full_map(Self, Tree).value
                    /\ ~full_map(Self, Tree).self._full_map_invalidated
        /\ ret.given \subseteq VisibleNow =>
              _full_map_invalidated = ret.was_invalidated

\* C17's case: update_widgets with a widget that is not visible turned the
\* stale flag on for a laid-out screen whose full map was valid
C17_Witness ==
    /\ ret.op = "update_widgets"
    /\ LaidOut
    /\ ~(ret.given \subseteq VisibleNow)
    /\ ~ret.was_invalidated
    /\ _full_map_invalidated

\* the widgets of both maps whose region has another width or height in
\* the new map
SizeChanged(old, new) ==
    {w \in Keys(old) \cap Keys(new) :
        region_size(Geometry(old, w).region) # region_size(Geometry(new, w).region)}

\* C18: reflow returns as shown the keys of the new map that are no keys of
\* the old one and as resized exactly the widgets of both maps whose region
\* size changed; shown, hidden and resized are pairwise disjoint.
C18_ShownAndResized ==
    ret.op = "reflow" =>
        /\ ret.shown = Keys(_full_map) \ Keys(ret.old_map)
        /\ ret.resized = SizeChanged(ret.old_map, _full_map)
        /\ ret.shown \cap ret.hidden = {}
        /\ ret.shown \cap ret.resized = {}
        /\ ret.resized \cap ret.hidden = {}

\* C18's case: a reflow reported a widget shown and a widget resized, and a
\* widget of both maps that moved without changing size was not reported
C18_Witness ==
    /\ ret.op = "reflow"
    /\ ret.shown # {}
    /\ ret.resized # {}
    /\ \E w \in (Keys(ret.old_map) \cap Keys(_full_map)) \ ret.resized :
          Geometry(ret.old_map, w).region # Geometry(_full_map, w).region

\* C19: reflow_visible returns the keys of the visible map it arranged that
\* are no keys of the previous map (the visible map held before the call,
\* else the full map): nothing when the keys are the same, every key when
\* there was no map.
C19_ExposedIsNewMinusPrevious ==
    ret.op = "reflow_visible" =>
        /\ ~IsNone(_visible_map)
        /\ ret.exposed = Keys(Get(_visible_map)) \ Keys(ret.old_map)
        /\ Keys(Get(_visible_map)) = Keys(ret.old_map) => ret.exposed = {}
        /\ ret.old_map = << >> => ret.exposed = Keys(Get(_visible_map))

\* C19's case: a reflow_visible over a visible map that was installed
\* exposed a widget and kept another
C19_Witness ==
    /\ ret.op = "reflow_visible"
    /\ ret.old_map # << >>
    /\ ret.old_map # _full_map
    /\ ret.exposed # {}
    /\ ret.exposed # Keys(Get(_visible_map))

\* the geometry find_widget returns has its clip inside the screen, and a
\* visible rectangle that is empty or inside the screen
ClipInScreen(g) ==
    /\ contains_region(size_region(size), g.clip)
    /\ \/ ~NonEmpty(visible_region(g))
       \/ contains_region(size_region(size), visible_region(g))

\* C20: in every reachable state, for every widget find_widget has an entry
\* for, the clip is contained in the current screen region, and clip /\ region
\* is empty or a subrectangle of the current screen.
C20_ClipsInsideScreen ==
    \A w \in Widgets :
        find_widget(Self, Tree, w).found =>
            ClipInScreen(Get(find_widget(Self, Tree, w).value))

(***************************************************************************)
(* Properties of the geometry stored in the maps.                          *)
(***************************************************************************)
\* a size that fits in another, in width and in height
SizeFits(a, b) == a.width <= b.width /\ a.height <= b.height

\* C21: for every MapGeometry of a map the compositor holds (leaves,
\* scrollable widgets and scrollbar chrome), the size of virtual_region fits
\* in virtual_size and container_size fits in the size of region.
C21_SizesBounded ==
    \A m \in HeldMaps : \A w \in Keys(m) :
        /\ SizeFits(region_size(Geometry(m, w).virtual_region),
                    Geometry(m, w).virtual_size)
        /\ SizeFits(Geometry(m, w).container_size,
                    region_size(Geometry(m, w).region))

(***************************************************************************)
(* Properties of rendering: widgets of opacity 0, the region asked of a    *)
(* widget, and the choice between the full and the partial update.         *)
(***************************************************************************)
\* the visible widgets front to back, and those of opacity 0 among them
Shown == visible_widgets(Self).value
ClearAmong(shown) == {i \in 1 .. Len(shown) : opacity[shown[i].widget] = 0}

\* the visible rectangle of an entry of the visible widgets
RectOf(e) == intersection(e.region, e.clip)

\* the crops a render of the current state passes to _get_renders: none, the
\* screen, and the bounding box of the dirty regions
CropsNow ==
    {Region(0, 0, 0, 0), size_region(size)}
        \cup (IF _dirty_regions = {} THEN {}
              ELSE {intersection(from_union(_dirty_regions), size_region(size))})

\* cuts and layers_visible as the properties compute them from the visible
\* widgets
CutsNow == cuts_of(Self, visible_widgets(Self)).value
LayersVisibleNow == layers_visible_of(Self, visible_widgets(Self))

\* no widget in front of the i-th of the visible widgets has the cell in its
\* visible rectangle
Frontmost(shown, i, cell) ==
    \A j \in 1 .. (i - 1) : ~contains(RectOf(shown[j]), cell[1], cell[2])

\* the widgets whose segments the chops of the last render hold
ChoppedWidgets ==
    UNION {UNION {IF IsNone(ret.chops[y][k].strip) THEN {}
                  ELSE {Get(ret.chops[y][k].strip)[n].w :
                           n \in 1 .. Len(Get(ret.chops[y][k].strip))} :
                  k \in 1 .. Len(ret.chops[y])} : y \in 1 .. Len(ret.chops)}

\* the widgets of the renders _get_renders yields for a crop
RenderedWidgets(crop) ==
    LET renders == _get_renders(Self, Tree, crop).value
    IN {renders[k].widget : k \in 1 .. Len(renders)}

InOneOf(old, new) == (Items(old) \ Items(new)) \cup (Items(new) \ Items(old))

\* C23: when the screen region of the new size is a dirty region as reflow
\* is called, reflow leaves the dirty regions as they are; otherwise every
\* pair in exactly one of the old and the new full map with a non-empty
\* visible rectangle has that rectangle among the dirty regions, and every
\* dirty region that was not one before is such a rectangle.
C23_ReflowMarksChanges ==
    ret.op = "reflow" =>
        IF size_region(size) \in ret.was_dirty
        THEN _dirty_regions = ret.was_dirty
        ELSE /\ ret.was_dirty \subseteq _dirty_regions
             /\ \A item \in InOneOf(ret.old_map, _full_map) :
                   NonEmpty(intersection(item[2].clip, item[2].region)) =>
                       intersection(item[2].clip, item[2].region) \in _dirty_regions
             /\ \A r \in _dirty_regions \ ret.was_dirty :
                   /\ NonEmpty(r)
                   /\ \E item \in InOneOf(ret.old_map, _full_map) :
                         r = intersection(item[2].clip, item[2].region)

\* C23's case: a reflow changed the geometry of a widget that is in the old
\* and in the new map, and both its old and its new visible rectangle became
\* dirty regions
C23_Witness ==
    /\ ret.op = "reflow"
    /\ size_region(size) \notin ret.was_dirty
    /\ \E w \in Keys(ret.old_map) \cap Keys(_full_map) :
          LET before == visible_region(Geometry(ret.old_map, w))
              after == visible_region(Geometry(_full_map, w))
          IN /\ before # after
             /\ NonEmpty(before)
             /\ NonEmpty(after)
             /\ {before, after} \subseteq _dirty_regions \ ret.was_dirty

(***************************************************************************)
(* _get_renders on its own: the method applied to one visible widget, for  *)
(* the regions and clips an arrangement can give it.                       *)
(***************************************************************************)
\* the regions of a widget: on, partly off and across a 4 x 2 viewport, of
\* no width or no height as well, and the scrolled child (0, -2, 5, 10)
RenderRegions ==
    {Region(x, y, w, h) : x \in {-1, 0, 1}, y \in {-1, 0, 1},
                          w \in {0, 1, 2, 5}, h \in {0, 1, 3}}
        \cup {Region(0, -2, 5, 10)}

\* the clips: the viewport, parts of it, and the viewport (0, 0, 5, 4)
RenderClips ==
    {Region(0, 0, 4, 2), Region(0, 0, 3, 2), Region(1, 0, 3, 1),
     Region(0, 0, 5, 4)}

\* the crops of a render: none, the viewport, one row of it
RenderCrops == {Region(0, 0, 0, 0), Region(0, 0, 4, 2), Region(0, 1, 4, 1)}

\* self.visible_widgets holds one widget, A, with a region and a clip that
\* passed the tests of visible_widgets for a screen the size of the clip
InitRenders ==
    /\ _full_map = Compositor_init._full_map
    /\ _full_map_invalidated = Compositor_init._full_map_invalidated
    /\ _visible_map = Compositor_init._visible_map
    /\ _layers = Compositor_init._layers
    /\ widgets = Compositor_init.widgets
    /\ _visible_widgets = Compositor_init._visible_widgets
    /\ root = Compositor_init.root
    /\ size = Compositor_init.size
    /\ _cuts = Compositor_init._cuts
    /\ _dirty_regions = Compositor_init._dirty_regions
    /\ _layers_visible = Compositor_init._layers_visible
    /\ scroll_y = 0
    /\ visibility = [w \in Styled |-> "visible"]
    /\ \E clear \in BOOLEAN :
          opacity = [w \in Widgets |-> IF w = "A" /\ clear THEN 0 ELSE 1]
    /\ repaint = [w \in Widgets |-> {}]
    /\ layout = "overlap"
    /\ \E region \in RenderRegions, clip \in RenderClips, crop \in RenderCrops :
          /\ overlaps(reset_offset(clip), region)
          /\ overlaps(clip, region)
          /\ ret = [NoCall EXCEPT
                        !.op = "visible_widgets",
                        !.crop = crop,
                        !.given = << [order |-> << << 0, 0, 0 >> >>,
                                      widget |-> "A", region |-> region,
                                      clip |-> clip] >>]
    /\ ops = 0

\* list(self._get_renders(crop))
GetRenders ==
    /\ ret.op = "visible_widgets"
    /\ ret' = [ret EXCEPT !.op = "_get_renders",
                          !.value = _get_renders_of(
                                        Tree, ret.crop,
                                        [self |-> Self, value |-> ret.given]).value]
    /\ UNCHANGED << compositor, tree, ops >>

NextRenders == GetRenders

SpecRenders == InitRenders /\ [][NextRenders]_vars

\* the rectangle r in the coordinates of a widget whose region is region
LocalTo(region, r) == Region(r.x - region.x, r.y - region.y, r.width, r.height)

\* C24: the region a rendered widget is asked for in render_lines is its
\* visible rectangle region /\ clip in widget-local coordinates, which is
\* (0, 0, width, height) when the clip contains the region; it is non-empty
\* and lies inside (0, 0, region.width, region.height).  The region
\* (0, -2, 5, 10) with the clip (0, 0, 5, 4) is asked for (0, 2, 5, 4).
C24_AskedIsVisibleLocal ==
    ret.op = "_get_renders" =>
        \A k \in 1 .. Len(ret.value) :
            LET e == ret.value[k]
            IN /\ e.asked = LocalTo(e.region, intersection(e.region, e.clip))
               /\ contains_region(e.clip, e.region) =>
                     e.asked = Region(0, 0, e.region.width, e.region.height)
               /\ NonEmpty(e.asked)
               /\ contains_region(Region(0, 0, e.region.width, e.region.height),
                                  e.asked)
               /\ (e.region = Region(0, -2, 5, 10) /\ e.clip = Region(0, 0, 5, 4)) =>
                     e.asked = Region(0, 2, 5, 4)

\* the cells of a list of spans and of a set of regions
CellsOfSpans(spans) == UNION {SpanCells(spans[i]) : i \in 1 .. Len(spans)}
CellsOfRegions(regions) == UNION {Cells(r) : r \in regions}

\* spans are the spans of the regions: in ascending (y, x1) order, no two of
\* a row overlapping or touching, none empty, and covering the cells of the
\* regions and no other
SpansOf(spans, regions) ==
    /\ \A i \in 1 .. Len(spans) : spans[i][2] < spans[i][3]
    /\ \A i, j \in 1 .. Len(spans) :
          i < j => \/ spans[i][1] < spans[j][1]
                   \/ /\ spans[i][1] = spans[j][1]
                      /\ spans[i][3] < spans[j][2]
    /\ CellsOfSpans(spans) = CellsOfRegions(regions)

\* C25: render_update(full) returns a full update (LayoutUpdate) exactly when
\* full is true or the screen region is one of the dirty regions; otherwise
\* it returns None exactly when there is no dirty region, and else a
\* ChopsUpdate whose spans are the spans of the dirty regions.  ret.kind is
\* the update of the path taken, also for a render that raises on that path.
C25_FullOrPartial ==
    ret.op = "render_update" =>
        /\ ret.kind = "LayoutUpdate"
              <=> (ret.full \/ size_region(size) \in ret.was_dirty)
        /\ ret.kind = "None"
              <=> (~ret.full /\ ret.was_dirty = {})
        /\ ret.kind \in {"LayoutUpdate", "None", "ChopsUpdate"}
        /\ ret.kind = "ChopsUpdate" => SpansOf(ret.spans, ret.was_dirty)

\* C25's case: with two dirty regions, neither of them the screen, a
\* render_update(False) returned a ChopsUpdate
C25_Witness ==
    /\ ret.op = "render_update"
    /\ ~ret.full
    /\ ret.kind = "ChopsUpdate"
    /\ Cardinality(ret.was_dirty) >= 2
    /\ Len(ret.spans) >= 2

\* the entry of widget w in the visible widgets vw
EntryOf(vw, w) == vw[CHOOSE i \in 1 .. Len(vw) : vw[i].widget = w]

\* the absolute, clipped region of the widget-local region r of an entry
ClippedRepaint(e, r) == intersection(e.clip, translate(r, region_offset(e.region)))

\* C26: update_widgets(W) drains the pending repaint regions of exactly the
\* widgets of W that are visible widgets, leaves the pending regions of all
\* others, and adds to the dirty regions exactly the non-empty regions
\* clip /\ (r translated by region.offset) of the regions r drained, each of
\* which lies inside the clip of its widget.
C26_UpdateAddsClippedRepaints ==
    [][ret'.op = "update_widgets" =>
          LET vw == Get(_visible_widgets')
              both == ret'.given \cap {vw[i].widget : i \in 1 .. Len(vw)}
              added == {ClippedRepaint(EntryOf(vw, w), r) :
                           << w, r >> \in {p \in both \X UNION {repaint[w] : w \in both} :
                                              p[2] \in repaint[p[1]]}}
          IN /\ ret'.drained = both
             /\ \A w \in Widgets :
                   repaint'[w] = IF w \in both THEN {} ELSE repaint[w]
             /\ _dirty_regions' = _dirty_regions \cup {r \in added : NonEmpty(r)}
             /\ \A w \in both : \A r \in repaint[w] :
                   NonEmpty(ClippedRepaint(EntryOf(vw, w), r)) =>
                       contains_region(EntryOf(vw, w).clip,
                                       ClippedRepaint(EntryOf(vw, w), r))]_vars

\* C26's case: update_widgets was given a visible widget, whose repaint
\* region it drained and added as a new dirty region, cut to the clip
C26_Witness ==
    /\ ret.op = "update_widgets"
    /\ ret.drained # {}
    /\ \E w \in ret.drained :
          LET e == EntryOf(Get(_visible_widgets), w)
          IN /\ ClippedRepaint(e, RepaintRegion) \in _dirty_regions \ ret.was_dirty
             /\ ClippedRepaint(e, RepaintRegion)
                   # translate(RepaintRegion, region_offset(e.region))

(***************************************************************************)
(* Properties that hold the queries and the dirty regions to the map in    *)
(* force.                                                                  *)
(***************************************************************************)
\* C27: whenever get_offset(w) and find_widget(w) both succeed for a widget
\* w, the offset of the region find_widget returns is the offset get_offset
\* returns.
C27_QueriesAgree ==
    \A w \in Widgets :
        (get_offset(Self, Tree, w).raised = "none" /\ find_widget(Self, Tree, w).found)
            => region_offset(Get(find_widget(Self, Tree, w).value).region)
                  = get_offset(Self, Tree, w).value

\* a span << y, x1, x2 >> lies on the screen
SpanOnScreen(span) ==
    /\ 0 <= span[1]
    /\ span[1] < size.height
    /\ 0 <= span[2]
    /\ span[2] <= span[3]
    /\ span[3] <= size.width

\* C28: every dirty region is contained in the current screen region, and
\* every span a render_partial_update hands to its ChopsUpdate lies on the
\* screen and names a row of chops, so that writing the update does not
\* fail.
C28_DirtyInsideScreen ==
    /\ \A r \in _dirty_regions : contains_region(size_region(size), r)
    /\ (ret.op = "render_update" /\ ret.kind = "ChopsUpdate") =>
          /\ \A i \in 1 .. Len(ret.spans) :
                /\ SpanOnScreen(ret.spans[i])
                /\ ret.spans[i][1] < Len(ret.chops)
          /\ ~ret.error

====
